---- MODULE Spec2Model ----
(***************************************************************************)
(* A model of the rjvm class-file decoder: the big-endian BufferedReader,  *)
(* the constant pool and its textual projection, the class-file walker,    *)
(* the StackMapTable decoder and the instruction decoder.                  *)
(*                                                                         *)
(* A Rust panic (unwrap/expect on an error, a slice index out of range, an *)
(* arithmetic overflow in a checked build, a stack overflow) is modelled   *)
(* as the outcome "panic": the process aborts and no further step of the   *)
(* operation is taken.                                                     *)
(***************************************************************************)
EXTENDS Integers, Sequences, FiniteSets, TLC

VARIABLES
    data,       \* BufferedReader.data: the borrowed byte slice
    position,   \* BufferedReader.position
    size,       \* BufferedReader.size
    last,       \* the most recent call on the reader and what it returned
    pool,       \* bytecode::pool::ConstantPool.entries (HashMap index -> entry)
    entries,    \* types::constants::ConstantPool.entries (Vec of entries)
    tx,         \* the most recent call on a constant pool and its result
    cf,         \* the class-file decode in progress: its locals and outcome
    smt,        \* the StackMapTable decode in progress
    dec,        \* the instruction decode loop over a code array
    desc        \* the descriptor text handed to a parser, and the result

readerVars == <<data, position, size, last>>
poolVars == <<pool, entries, tx>>
decodeVars == <<cf, smt, dec, desc>>
vars ==
    <<data, position, size, last, pool, entries, tx, cf, smt, dec, desc>>

-----------------------------------------------------------------------------
(* Bounds of the reader specification *)

\* longest byte slice handed to BufferedReader::new
MaxData == 5
\* largest length passed to take_bytes
MaxTake == 3

\* the byte values the reader inputs are built from
ReaderBytes == {0, 1, 255}

-----------------------------------------------------------------------------
(* Generic helpers *)

Min(a, b) == IF a < b THEN a ELSE b

RECURSIVE Pow2(_)
Pow2(n) == IF n = 0 THEN 1 ELSE 2 * Pow2(n - 1)

\* data[from .. from + n) as a sequence (Rust: &self.data[from..from + n])
Slice(d, from, n) == [i \in 1..n |-> d[from + i]]

\* all sequences over S of length 0..n
SeqsUpTo(S, n) == UNION {[1..k -> S] : k \in 0..n}

-----------------------------------------------------------------------------
(* FromBytes: big-endian decoding of the primitive types *)

\* std::mem::size_of::<T>() and signedness of the types read with take<T>
TypeWidth ==
    [u8 |-> 1, i8 |-> 1, u16 |-> 2, i16 |-> 2, u32 |-> 4, i32 |-> 4,
     f32 |-> 4, i64 |-> 8, f64 |-> 8]

SignedTypes == {"i8", "i16", "i32", "i64"}

PrimTypes == DOMAIN TypeWidth

\* uN::from_be_bytes
RECURSIVE BigEndian(_)
BigEndian(bytes) ==
    IF Len(bytes) = 0 THEN 0
    ELSE BigEndian(SubSeq(bytes, 1, Len(bytes) - 1)) * 256 + bytes[Len(bytes)]

\* T::from_bytes(slice): the length check, then the big-endian value.  One-
\* and two-byte types give the number (two's complement for i8 and i16); the
\* four- and eight-byte types (u32, i32, f32, i64, f64) give the value as its
\* big-endian base-256 digits, which determine it uniquely
from_bytes(T, bytes) ==
    IF Len(bytes) # TypeWidth[T]
    THEN [ok |-> FALSE, err |-> "InvalidData", value |-> 0]
    ELSE LET w == 8 * TypeWidth[T]
         IN [ok |-> TRUE, err |-> "",
             value |-> IF TypeWidth[T] > 2 THEN bytes
                       ELSE LET u == BigEndian(bytes)
                            IN IF T \in SignedTypes /\ u >= Pow2(w - 1)
                               THEN u - Pow2(w) ELSE u]

\* a length of 2^30 or more: larger than every slice, only ever compared with
\* the bytes that remain
HugeLen == 1073741824

\* `x as usize` for a u32 given by its digits
U32ToUsize(v) == IF v[1] >= 64 THEN HugeLen ELSE BigEndian(v)

-----------------------------------------------------------------------------
(* BufferedReader, as functions of the cursor *)

\* advance with the cursor moved before the bounds test
advance_cursor_first(d, pos, sz, n) ==
    IF pos + n > sz
    THEN [ok |-> FALSE, err |-> "UnexpectedEndOfData", pos |-> pos + n,
          slice |-> <<>>]
    ELSE [ok |-> TRUE, err |-> "", pos |-> pos + n, slice |-> Slice(d, pos, n)]

\* BufferedReader::advance(n) at cursor pos over d: the slice and the new
\* cursor, or UnexpectedEndOfData with the cursor where it was
advance(d, pos, sz, n) ==
    IF pos + n > sz
    THEN [ok |-> FALSE, err |-> "UnexpectedEndOfData", pos |-> pos,
          slice |-> <<>>]
    ELSE [ok |-> TRUE, err |-> "", pos |-> pos + n, slice |-> Slice(d, pos, n)]

\* BufferedReader::take::<T>()
take(d, pos, sz, T) ==
    LET a == advance(d, pos, sz, TypeWidth[T])
    IN IF ~a.ok
       THEN [kind |-> "err", err |-> a.err, pos |-> a.pos, value |-> 0]
       ELSE LET f == from_bytes(T, a.slice)
            IN IF f.ok
               THEN [kind |-> "ok", err |-> "", pos |-> a.pos,
                     value |-> f.value]
               ELSE [kind |-> "err", err |-> f.err, pos |-> a.pos,
                     value |-> 0]

\* BufferedReader::take_bytes(length)
take_bytes(d, pos, sz, n) ==
    LET a == advance(d, pos, sz, n)
    IN IF a.ok
       THEN [kind |-> "ok", err |-> "", pos |-> a.pos, value |-> a.slice]
       ELSE [kind |-> "err", err |-> a.err, pos |-> a.pos, value |-> <<>>]

\* BufferedReader::peek_bytes::<T>(): the slice expression is evaluated
\* without a bounds test, so it panics when position + length > data.len()
peek_bytes(d, pos, T) ==
    IF pos + TypeWidth[T] > Len(d)
    THEN [kind |-> "panic", err |-> "", pos |-> pos, value |-> 0]
    ELSE LET f == from_bytes(T, Slice(d, pos, TypeWidth[T]))
         IN IF f.ok
            THEN [kind |-> "ok", err |-> "", pos |-> pos, value |-> f.value]
            ELSE [kind |-> "err", err |-> f.err, pos |-> pos, value |-> 0]

\* BufferedReader::has_remaining_data()
has_remaining_data(d, pos) == pos = Len(d)

\* the value of `last` on a reader that has not been called yet
NoCall == [op |-> "new", T |-> "", n |-> 0, before |-> 0, kind |-> "ok",
           err |-> "", value |-> 0]

-----------------------------------------------------------------------------
(* Constant pool entries *)

\* ConstantPoolEntry: the tag, up to two indices (a, b) and the payload bytes
\* (the Utf8 bytes, or the big-endian digits of a numeric constant)
Entry(tag, a, b, bytes) == [tag |-> tag, a |-> a, b |-> b, bytes |-> bytes]

Utf8(bytes) == Entry("Utf8", Len(bytes), 0, bytes)
Class(name_index) == Entry("Class", name_index, 0, <<>>)
String(string_index) == Entry("String", string_index, 0, <<>>)
FieldRef(c, nt) == Entry("FieldRef", c, nt, <<>>)
MethodRef(c, nt) == Entry("MethodRef", c, nt, <<>>)
InterfaceMethodRef(c, nt) == Entry("InterfaceMethodRef", c, nt, <<>>)
NameAndType(n, d) == Entry("NameAndType", n, d, <<>>)
Integer(bytes) == Entry("Integer", 0, 0, bytes)
Float(bytes) == Entry("Float", 0, 0, bytes)
Long(bytes) == Entry("Long", 0, 0, bytes)
Double(bytes) == Entry("Double", 0, 0, bytes)
MethodHandle(kind, ref) == Entry("MethodHandle", kind, ref, <<>>)
MethodType(d) == Entry("MethodType", d, 0, <<>>)
Dynamic(bm, nt) == Entry("Dynamic", bm, nt, <<>>)
InvokeDynamic(bm, nt) == Entry("InvokeDynamic", bm, nt, <<>>)
Module(name_index) == Entry("Module", name_index, 0, <<>>)
Package(name_index) == Entry("Package", name_index, 0, <<>>)

\* the None of a lookup that finds no entry
Absent == Entry("absent", 0, 0, <<>>)

-----------------------------------------------------------------------------
(* Strings: a String is modelled as the sequence of its UTF-8 bytes *)

\* a continuation byte 10xxxxxx
IsCont(b) == b >= 128 /\ b <= 191

\* std::str::from_utf8 validation (Unicode table 3-7 of well-formed sequences)
RECURSIVE ValidUtf8From(_, _)
ValidUtf8From(b, i) ==
    LET n == Len(b)
        c == b[i]
        has(k) == i + k <= n
    IN IF i > n THEN TRUE
       ELSE IF c < 128 THEN ValidUtf8From(b, i + 1)
       ELSE IF c >= 194 /\ c <= 223
            THEN has(1) /\ IsCont(b[i + 1]) /\ ValidUtf8From(b, i + 2)
       ELSE IF c >= 224 /\ c <= 239
            THEN /\ has(2)
                 /\ IF c = 224 THEN b[i + 1] >= 160 /\ b[i + 1] <= 191
                    ELSE IF c = 237 THEN b[i + 1] >= 128 /\ b[i + 1] <= 159
                    ELSE IsCont(b[i + 1])
                 /\ IsCont(b[i + 2])
                 /\ ValidUtf8From(b, i + 3)
       ELSE IF c >= 240 /\ c <= 244
            THEN /\ has(3)
                 /\ IF c = 240 THEN b[i + 1] >= 144 /\ b[i + 1] <= 191
                    ELSE IF c = 244 THEN b[i + 1] >= 128 /\ b[i + 1] <= 143
                    ELSE IsCont(b[i + 1])
                 /\ IsCont(b[i + 2])
                 /\ IsCont(b[i + 3])
                 /\ ValidUtf8From(b, i + 4)
       ELSE FALSE

\* String::from_utf8(bytes).is_ok()
ValidUtf8(bytes) == ValidUtf8From(bytes, 1)

\* the decimal digits of a natural number, as ASCII bytes
RECURSIVE NatDigits(_)
NatDigits(n) ==
    IF n < 10 THEN <<48 + n>>
    ELSE Append(NatDigits(n \div 10), 48 + (n % 10))

\* the i32 whose big-endian two's-complement digits are bytes
I32Value(bytes) ==
    (IF bytes[1] >= 128 THEN bytes[1] - 256 ELSE bytes[1]) * 16777216
    + bytes[2] * 65536 + bytes[3] * 256 + bytes[4]

\* i32::to_string(): the decimal rendering, '-' first for a negative number
I32ToString(bytes) ==
    LET v == I32Value(bytes)
    IN IF v >= 0 THEN NatDigits(v)
       ELSE LET q == (0 - (v + 1)) \div 10      \* -(v+1) avoids -(-2^31)
                r == (0 - (v + 1)) % 10
            IN IF r = 9
               THEN <<45>> \o NatDigits(q + 1) \o <<48>>
               ELSE IF q = 0 THEN <<45, 48 + r + 1>>
                    ELSE <<45>> \o NatDigits(q) \o <<48 + r + 1>>

\* f32::to_string(): the rendering of a float is kept as the token 'f'
\* followed by the bit pattern, one per float
F32ToString(bytes) == <<102>> \o bytes

-----------------------------------------------------------------------------
(* bytecode::pool::ConstantPool *)

\* results of the projections: Some(text), None, a panic, or no return at all
Some(text) == [kind |-> "some", text |-> text]
None == [kind |-> "none", text |-> <<>>]
Panic == [kind |-> "panic", text |-> <<>>]
\* the call re-enters itself with the same argument: the recursion has no
\* end (the stack overflows, or the call loops forever where the compiler
\* turned the tail call into a jump)
Diverge == [kind |-> "diverge", text |-> <<>>]

\* ConstantPool::get(index)
get(p, index) == IF index \in DOMAIN p THEN p[index] ELSE Absent

\* format!("{}{sep}{}", x?, y?) where x and y are the two recursive calls:
\* x is evaluated first and `?` returns None before y is evaluated
Join2(x, sep, y) ==
    IF x.kind # "some" THEN x
    ELSE IF y.kind # "some" THEN y
    ELSE Some(x.text \o sep \o y.text)

\* ConstantPool::text_of(index).  active is the set of indices whose text_of
\* call is on the call stack: the pool is not changed during the call, so a
\* call for an index that is active repeats itself without end.
RECURSIVE text_of_in(_, _, _)
text_of_in(p, index, active) ==
    IF index \notin DOMAIN p THEN None
    ELSE IF index \in active THEN Diverge
    ELSE LET e == p[index]
             sub(i) == text_of_in(p, i, active \cup {index})
         IN CASE e.tag = "Utf8" ->
                   IF ValidUtf8(e.bytes) THEN Some(e.bytes) ELSE Panic
              [] e.tag = "String" -> sub(e.a)
              [] e.tag = "Integer" -> Some(I32ToString(e.bytes))
              [] e.tag = "Float" -> Some(F32ToString(e.bytes))
              [] e.tag = "MethodRef" -> Join2(sub(e.a), <<46>>, sub(e.b))
              [] e.tag = "InterfaceMethodRef" ->
                   Join2(sub(e.a), <<46>>, sub(e.b))
              [] e.tag = "NameAndType" -> Join2(sub(e.a), <<58, 32>>, sub(e.b))
              [] e.tag = "Class" -> sub(e.a)
              [] OTHER -> None

text_of(p, index) == text_of_in(p, index, {})

-----------------------------------------------------------------------------
(* types::constants::ConstantPool *)

\* ConstantPool::get_by_index(idx)
get_by_index(es, idx) ==
    IF idx = 0 \/ idx >= Len(es) THEN Absent ELSE es[idx]

\* ConstantPool::text_of_value(index)
RECURSIVE text_of_value_in(_, _, _)
text_of_value_in(es, index, active) ==
    IF get_by_index(es, index) = Absent THEN None
    ELSE IF index \in active THEN Diverge
    ELSE LET e == get_by_index(es, index)
         IN CASE e.tag = "Utf8" ->
                   IF ValidUtf8(e.bytes) THEN Some(e.bytes) ELSE Panic
              [] e.tag = "String" ->
                   text_of_value_in(es, e.a, active \cup {index})
              [] OTHER -> None

text_of_value(es, index) == text_of_value_in(es, index, {})

-----------------------------------------------------------------------------
(* Results of the decoding functions, and the two drafts of the decoder *)

\* Ok(value), with the cursor the call leaves behind
Ok(pos, value) == [kind |-> "ok", err |-> "", pos |-> pos, value |-> value]
\* Err(err), returned to the caller
Err(pos, err) == [kind |-> "err", err |-> err, pos |-> pos, value |-> 0]
\* the call panicked
Abort(pos) == [kind |-> "panic", err |-> "", pos |-> pos, value |-> 0]
\* the call never returns (text_of on a reference cycle)
Never(pos) == [kind |-> "diverge", err |-> "", pos |-> pos, value |-> 0]

\* "bytecode" is bytecode::reader (errors propagated with `?`), "decoder" is
\* decoder::* over types::* (errors unwrapped on the spot)
Drafts == {"bytecode", "decoder"}

\* what a call site does with a Result: `?` hands an Err to the caller,
\* `.unwrap()` / `.expect(..)` panics on it
try(draft, r) ==
    IF draft = "decoder" /\ r.kind = "err" THEN Abort(r.pos) ELSE r

\* the result of a loop from its first iteration r and the iterations after
\* it: the values in order, or the failure of a later iteration
cons(r, rest) ==
    IF rest.kind # "ok" THEN rest
    ELSE Ok(rest.pos, <<r.value>> \o rest.value)

\* a run of `reader.take::<T>()` statements, one per element of types; the
\* values in order, or the first failure
RECURSIVE take_all(_, _, _, _, _)
take_all(draft, d, pos, sz, types) ==
    LET then(r) ==
            IF r.kind # "ok" THEN r
            ELSE cons(r, take_all(draft, d, r.pos, sz, Tail(types)))
    IN IF types = <<>> THEN Ok(pos, <<>>)
       ELSE then(try(draft, take(d, pos, sz, Head(types))))

\* `for _ in 0..n { take_all(types) }`: the rows in order, or the first failure
RECURSIVE take_rows(_, _, _, _, _, _)
take_rows(draft, d, pos, sz, n, types) ==
    LET then(r) ==
            IF r.kind # "ok" THEN r
            ELSE cons(r, take_rows(draft, d, r.pos, sz, n - 1, types))
    IN IF n = 0 THEN Ok(pos, <<>>)
       ELSE then(take_all(draft, d, pos, sz, types))

\* text_of of the HashMap pool, text_of_value of the Vec pool
Text(draft, cp, index) ==
    IF draft = "bytecode" THEN text_of(cp, index) ELSE text_of_value(cp, index)

-----------------------------------------------------------------------------
(* Constant pool entries on the wire *)

\* ConstantTag::from_tag
from_tag(t) ==
    CASE t = 1 -> "Utf8" [] t = 3 -> "Integer" [] t = 4 -> "Float"
      [] t = 5 -> "Long" [] t = 6 -> "Double" [] t = 7 -> "Class"
      [] t = 8 -> "String" [] t = 9 -> "FieldRef" [] t = 10 -> "MethodRef"
      [] t = 11 -> "InterfaceMethodRef" [] t = 12 -> "NameAndType"
      [] t = 15 -> "MethodHandle" [] t = 16 -> "MethodType"
      [] t = 17 -> "Dynamic" [] t = 18 -> "InvokeDynamic"
      [] t = 19 -> "Module" [] t = 20 -> "Package"
      [] OTHER -> "none"

\* the fields each match arm reads after the tag (Utf8 and Float are read by
\* arms of their own)
EntryFields ==
    [Class |-> <<"u16">>, FieldRef |-> <<"u16", "u16">>,
     MethodRef |-> <<"u16", "u16">>, InterfaceMethodRef |-> <<"u16", "u16">>,
     String |-> <<"u16">>, Integer |-> <<"i32">>,
     Long |-> <<"u32", "u32">>, Double |-> <<"u32", "u32">>,
     NameAndType |-> <<"u16", "u16">>, MethodHandle |-> <<"u8", "u16">>,
     MethodType |-> <<"u16">>, Dynamic |-> <<"u16", "u16">>,
     InvokeDynamic |-> <<"u16", "u16">>, Module |-> <<"u16">>,
     Package |-> <<"u16">>]

\* the entry an arm builds from the fields it read
MakeEntry(tag, v) ==
    CASE tag = "Integer" -> Entry(tag, 0, 0, v[1])
      [] tag \in {"Long", "Double"} -> Entry(tag, 0, 0, v[1] \o v[2])
      [] Len(v) = 1 -> Entry(tag, v[1], 0, <<>>)
      [] OTHER -> Entry(tag, v[1], v[2], <<>>)

\* read_constant_pool_entry / ConstantPoolEntry::decode
read_constant_pool_entry(draft, d, pos, sz) ==
    LET utf8(b) == IF b.kind # "ok" THEN b ELSE Ok(b.pos, Utf8(b.value))
        length(len) ==
            IF len.kind # "ok" THEN len
            ELSE utf8(try(draft, take_bytes(d, len.pos, sz, len.value)))
        \* reader.take::<f32>().expect("msg") in both drafts
        float(f) ==
            IF f.kind # "ok" THEN Abort(f.pos) ELSE Ok(f.pos, Float(f.value))
        fields(tag, f) ==
            IF f.kind # "ok" THEN f ELSE Ok(f.pos, MakeEntry(tag, f.value))
        arm(tag, p) ==
            IF tag = "none" THEN try(draft, Err(p, "InvalidData"))
            ELSE IF tag = "Utf8" THEN length(try(draft, take(d, p, sz, "u16")))
            ELSE IF tag = "Float" THEN float(take(d, p, sz, "f32"))
            ELSE fields(tag, take_all(draft, d, p, sz, EntryFields[tag]))
        then(t) == IF t.kind # "ok" THEN t ELSE arm(from_tag(t.value), t.pos)
    IN then(try(draft, take(d, pos, sz, "u8")))

-----------------------------------------------------------------------------
(* Descriptors: parse_field_type, Descriptor::parse_from_field and          *)
(* Descriptor::parse_from_method of bytecode::descriptors, and              *)
(* parse_descriptor and parse_method_descriptor of decoder::methods.  A     *)
(* descriptor is the text the pool gave, the bytes of its UTF-8 form: the   *)
(* characters the parsers match on are ASCII, one byte each, and no byte of *)
(* a longer character is equal to one of them                               *)

\* the characters the parsers match on
Char ==
    [B |-> 66, C |-> 67, D |-> 68, F |-> 70, I |-> 73, J |-> 74, S |-> 83,
     Z |-> 90, V |-> 86, L |-> 76, semicolon |-> 59, bracket |-> 91,
     open |-> 40, close |-> 41]

\* the array arm giving back the component type, without a layer around it
Array_unboxed(child) == child

\* FieldType::Base(BaseType::..), Object(class_name), Array(Box<child>)
Base(b) == <<"Base", b>>
Object(class_name) == <<"Object", class_name>>
Array(child) == <<"Array", child>>

\* the arms `Some('B') => ..` to `Some('Z') => ..`
BaseType ==
    [c \in {Char.B, Char.C, Char.D, Char.F, Char.I, Char.J, Char.S, Char.Z} |->
        CASE c = Char.B -> "Byte" [] c = Char.C -> "Char"
          [] c = Char.D -> "Double" [] c = Char.F -> "Float"
          [] c = Char.I -> "Int" [] c = Char.J -> "Long"
          [] c = Char.S -> "Short" [] c = Char.Z -> "Boolean"]

\* the characters before the first c of chars (all of them if there is
\* none), and those after it: what `while let Some(x) = chars.pop()` with a
\* break on c, or take_while(|x| *x != c) on by_ref(), takes and leaves
Before(chars, c) ==
    LET at == {i \in 1..Len(chars) : chars[i] = c}
        n == IF at = {} THEN Len(chars)
             ELSE (CHOOSE i \in at : \A j \in at : i <= j) - 1
    IN SubSeq(chars, 1, n)
After(chars, c) ==
    SubSeq(chars, Len(Before(chars, c)) + 2, Len(chars))

\* parse_field_type(chars) ("bytecode") and parse_descriptor(chars)
\* ("decoder"), on the characters in the order they are popped: the type,
\* or None, and the characters left.  The two differ in the last arm `_`,
\* taken by any other character and by the end of the input:
\* Some(Base(Void)) in parse_field_type, None in parse_descriptor
RECURSIVE parse_field_type(_, _)
parse_field_type(draft, chars) ==
    LET array(child) ==
            [ty |-> IF child.ty.kind = "none" THEN None
                    ELSE Some(Array(child.ty.text)),
             rest |-> child.rest]
        other == IF draft = "bytecode" THEN Some(Base("Void")) ELSE None
    IN IF chars = <<>> THEN [ty |-> other, rest |-> <<>>]
       ELSE IF Head(chars) \in DOMAIN BaseType
       THEN [ty |-> Some(Base(BaseType[Head(chars)])), rest |-> Tail(chars)]
       ELSE IF Head(chars) = Char.L
       THEN [ty |-> Some(Object(Before(Tail(chars), Char.semicolon))),
             rest |-> After(Tail(chars), Char.semicolon)]
       ELSE IF Head(chars) = Char.bracket
       THEN array(parse_field_type(draft, Tail(chars)))
       ELSE [ty |-> other, rest |-> Tail(chars)]

\* `while !param_chars.is_empty() { if let Some(ty) = parse(..) { push } }`
RECURSIVE parse_parameters(_, _)
parse_parameters(draft, param_chars) ==
    LET then(p) ==
            (IF p.ty.kind = "none" THEN <<>> ELSE <<p.ty.text>>)
            \o parse_parameters(draft, p.rest)
    IN IF param_chars = <<>> THEN <<>>
       ELSE then(parse_field_type(draft, param_chars))

\* Descriptor::parse_from_field(descriptor): the Descriptor of kind Type, or
\* Err(InvalidDescriptor) where parse_field_type gives None
parse_from_field(descriptor) ==
    LET p == parse_field_type("bytecode", descriptor)
    IN IF p.ty.kind = "none" THEN Err(0, "InvalidDescriptor")
       ELSE Ok(0, <<[kind |-> "Type", ty |-> p.ty.text]>>)

\* the head of both method parsers: chars.next() takes the first character;
\* if it is '(' the parameters are the characters up to the first ')' and
\* the return type is parsed from those after it, otherwise there are no
\* parameters and the return type is parsed from what follows the character
param_chars(descriptor) ==
    IF descriptor # <<>> /\ Head(descriptor) = Char.open
    THEN Before(Tail(descriptor), Char.close) ELSE <<>>
ret_chars(descriptor) ==
    IF descriptor = <<>> THEN <<>>
    ELSE IF Head(descriptor) = Char.open
    THEN After(Tail(descriptor), Char.close)
    ELSE Tail(descriptor)

\* parse_from_method pushing the parameters in the order the reversed
\* param_chars holds them, last parameter first
parse_from_method_last_first(descriptor) ==
    LET ps == parse_parameters("bytecode", param_chars(descriptor))
        r == parse_field_type("bytecode", ret_chars(descriptor))
    IN Ok(0, [i \in 1..Len(ps) |->
                 [kind |-> "Parameter", ty |-> ps[Len(ps) + 1 - i]]]
             \o (IF r.ty.kind = "none" THEN <<>>
                 ELSE <<[kind |-> "Return", ty |-> r.ty.text]>>))

\* Descriptor::parse_from_method(descriptor): the Parameter descriptors and
\* the Return descriptor, a Vec and no Result
parse_from_method(descriptor) ==
    LET ps == parse_parameters("bytecode", param_chars(descriptor))
        r == parse_field_type("bytecode", ret_chars(descriptor))
    IN Ok(0, [i \in 1..Len(ps) |-> [kind |-> "Parameter", ty |-> ps[i]]]
             \o (IF r.ty.kind = "none" THEN <<>>
                 ELSE <<[kind |-> "Return", ty |-> r.ty.text]>>))

\* parse_method_descriptor(descriptor) of decoder::methods: always
\* Ok(MethodDescriptor { parameters, return_ty }), return_ty an Option
parse_method_descriptor(descriptor) ==
    Ok(0, [parameters |-> parse_parameters("decoder", param_chars(descriptor)),
           return_ty |-> parse_field_type("decoder", ret_chars(descriptor)).ty])

\* <BaseType as Display>::fmt: the text written for each base type
BaseType_fmt ==
    [Byte |-> <<98, 121, 116, 101>>,
     Char |-> <<99, 104, 97, 114>>,
     Double |-> <<100, 111, 117, 98, 108, 101>>,
     Float |-> <<102, 108, 111, 97, 116>>,
     Int |-> <<105, 110, 116>>,
     Long |-> <<108, 111, 110, 103>>,
     Short |-> <<115, 104, 111, 114, 116>>,
     Boolean |-> <<98, 111, 111, 108, 101, 97, 110>>,
     Void |-> <<118, 111, 105, 100>>]

\* <FieldType as Display>::fmt: "{}" of the base type, "{}" of the class
\* name, "[{}]" of the component type
RECURSIVE FieldType_fmt(_)
FieldType_fmt(ty) ==
    IF ty[1] = "Base" THEN BaseType_fmt[ty[2]]
    ELSE IF ty[1] = "Object" THEN ty[2]
    ELSE <<91>> \o FieldType_fmt(ty[2]) \o <<93>>

\* The grammar the parsers are written for, from their doc comments

\* the text is exactly one field type of the grammar: a base type (with 'V'
\* where void says so), 'L' class name ';', or '[' and a field type
RECURSIVE IsFieldType(_, _)
IsFieldType(text, void) ==
    IF text = <<>> THEN FALSE
    ELSE IF Head(text) \in DOMAIN BaseType \/ (void /\ Head(text) = Char.V)
    THEN Len(text) = 1
    ELSE IF Head(text) = Char.L
    THEN /\ Len(text) > 2
         /\ \A i \in 2..Len(text) :
                (text[i] = Char.semicolon) <=> (i = Len(text))
    ELSE Head(text) = Char.bracket /\ IsFieldType(Tail(text), void)

\* the text is a sequence of field types
RECURSIVE IsFieldTypes(_)
IsFieldTypes(text) ==
    \/ text = <<>>
    \/ \E k \in 1..Len(text) :
           /\ IsFieldType(SubSeq(text, 1, k), FALSE)
           /\ IsFieldTypes(SubSeq(text, k + 1, Len(text)))

\* the text is '(' field types ')' and one return type
IsMethodDescriptor(text) ==
    /\ text # <<>> /\ Head(text) = Char.open
    /\ \E k \in 2..Len(text) :
           /\ text[k] = Char.close
           /\ IsFieldTypes(SubSeq(text, 2, k - 1))
           /\ IsFieldType(SubSeq(text, k + 1, Len(text)), TRUE)

\* the type a field type of the grammar denotes (void for 'V')
RECURSIVE TypeOf(_)
TypeOf(text) ==
    IF Head(text) = Char.bracket THEN Array(TypeOf(Tail(text)))
    ELSE IF Head(text) = Char.L THEN Object(SubSeq(text, 2, Len(text) - 1))
    ELSE IF Head(text) = Char.V THEN Base("Void")
    ELSE Base(BaseType[Head(text)])

\* the types a sequence of field types denotes, in the order of the text
RECURSIVE TypesOf(_)
TypesOf(text) ==
    IF text = <<>> THEN <<>>
    ELSE LET k == CHOOSE n \in 1..Len(text) :
                      IsFieldType(SubSeq(text, 1, n), FALSE)
         IN <<TypeOf(SubSeq(text, 1, k))>>
            \o TypesOf(SubSeq(text, k + 1, Len(text)))

\* what the function makes of the descriptor text, which reads nothing and
\* cannot fail the call: Descriptor::parse_from_field(..).unwrap_or(the
\* Descriptor of type Void) in read_field and Field::decode,
\* Descriptor::parse_from_method(..) in read_method; Method::decode keeps
\* the text
descriptor_of(site, draft, text) ==
    LET f == parse_from_field(text)
    IN IF site = "field"
       THEN IF f.kind = "ok" THEN f.value
            ELSE <<[kind |-> "Type", ty |-> Base("Void")]>>
       ELSE IF draft = "bytecode" THEN parse_from_method(text).value
       ELSE text

-----------------------------------------------------------------------------
(* Attributes on the wire *)

\* the attribute names that occur in the inputs, as UTF-8 bytes
AttributeName ==
    [Code |-> <<67, 111, 100, 101>>,
     SourceFile |-> <<83, 111, 117, 114, 99, 101, 70, 105, 108, 101>>,
     ConstantValue |->
         <<67, 111, 110, 115, 116, 97, 110, 116, 86, 97, 108, 117, 101>>,
     LineNumberTable |->
         <<76, 105, 110, 101, 78, 117, 109, 98, 101, 114, 84, 97, 98, 108,
           101>>,
     StackMapTable |->
         <<83, 116, 97, 99, 107, 77, 97, 112, 84, 97, 98, 108, 101>>,
     SourceDebugExtension |->
         <<83, 111, 117, 114, 99, 101, 68, 101, 98, 117, 103, 69, 120, 116,
           101, 110, 115, 105, 111, 110>>]

\* the names whose decoders are modelled: of the arms of the match in
\* Attribute::decode (decoder draft) the inputs name only these
StandardAttributes == {AttributeName[n] : n \in DOMAIN AttributeName}

\* the names the example programs register in their Container, as far as the
\* inputs name them (StackMapTable and SourceDebugExtension are not
\* registered by any of them)
ExampleContainer ==
    StandardAttributes
    \ {AttributeName.StackMapTable, AttributeName.SourceDebugExtension}

\* the flag bits of the three bitflags types, by the site that reads them
AccessFlags ==
    [class |-> {1, 16, 32, 512, 1024, 4096, 8192, 16384, 32768},
     field |-> {1, 2, 4, 8, 16, 64, 128, 4096, 16384},
     method |-> {1, 2, 4, 8, 16, 32, 64, 128, 256, 1024, 2048, 4096}]

\* bitflags from_bits(v): Some(..) exactly when every bit set in v is a flag
from_bits(site, v) ==
    \A i \in 0..15 :
        (v \div Pow2(i)) % 2 = 1 => Pow2(i) \in AccessFlags[site]

\* what a call site makes of the Option a text projection returns: the text,
\* or err where the site tests for None (bytecode) and a panic where it
\* unwraps (decoder)
text_or(draft, pos, t, err) ==
    IF t.kind = "some" THEN Ok(pos, t.text)
    ELSE IF t.kind = "panic" THEN Abort(pos)
    ELSE IF t.kind = "diverge" THEN Never(pos)
    ELSE try(draft, Err(pos, err))

\* one verification_type_info: the tag byte, and a u16 for Object (7) and
\* Uninitialized (8)
read_verification_type(draft, d, pos, sz) ==
    LET arg(tag, a) ==
            IF a.kind # "ok" THEN a ELSE Ok(a.pos, <<tag, a.value>>)
        then(t) ==
            IF t.kind # "ok" THEN t
            ELSE IF t.value \in 0..6 THEN Ok(t.pos, <<t.value>>)
            ELSE IF t.value \in {7, 8}
            THEN arg(t.value, try(draft, take(d, t.pos, sz, "u16")))
            ELSE try(draft, Err(t.pos, "UnsupportedVerificationType"))
    IN then(try(draft, take(d, pos, sz, "u8")))

\* `for _ in 0..n { verification type }`
RECURSIVE read_verification_types(_, _, _, _, _)
read_verification_types(draft, d, pos, sz, n) ==
    LET then(v) ==
            IF v.kind # "ok" THEN v
            ELSE cons(v, read_verification_types(draft, d, v.pos, sz, n - 1))
    IN IF n = 0 THEN Ok(pos, <<>>)
       ELSE then(read_verification_type(draft, d, pos, sz))

RECURSIVE read_frames(_, _, _, _, _, _)
RECURSIVE read_attributes(_, _, _, _, _, _, _)

\* std::mem::size_of::<Vec<u8>>(): pointer, capacity and length, three words
\* of 8 bytes
SizeOfVec == 24

\* one statement of a decoding function, applied after the statements that
\* gave r (the cursor and the values read so far); the statement reads at the
\* cursor and its value is pushed onto the values:
\*   <<"take", T>>   reader.take::<T>()
\*   <<"flags", s>>  from_bits of site s on the value read last (pushes none)
\*   <<"text", err>>  the text of the pool index read last, or err
\*   <<"descriptor", s>>  the descriptor site s makes of the text read last
\*   <<"bytes">>     take_bytes(n as usize), n the u32 read last
\*   <<"vec">>       reader.take::<Vec<u8>>(): size_of::<Vec<u8>>() bytes
\*   <<"rows", Ts>>  for _ in 0..n { take Ts }, n the u16 read last
\*   <<"type">>      one verification type
\*   <<"types">>, <<"types", n>>  n verification types, n read last or given
\*   <<"frames">>    the frame loop of StackMapTable, over the number of
\*                   entries and the frame type read before it
\*   <<"attributes">>  for _ in 0..n { read_attribute }, n the u16 read last
step(draft, d, sz, cp, container, s, r) ==
    LET n == Len(r.value)
        x == IF s[1] = "take" THEN try(draft, take(d, r.pos, sz, s[2]))
             ELSE IF s[1] = "flags"
             THEN IF from_bits(s[2], r.value[n]) THEN Ok(r.pos, <<>>)
                  ELSE try(draft, Err(r.pos, "InvalidClassFile"))
             ELSE IF s[1] = "text"
             THEN text_or(draft, r.pos, Text(draft, cp, r.value[n]), s[2])
             ELSE IF s[1] = "descriptor"
             THEN Ok(r.pos, descriptor_of(s[2], draft, r.value[n]))
             ELSE IF s[1] = "bytes"
             THEN try(draft, take_bytes(d, r.pos, sz, U32ToUsize(r.value[n])))
             ELSE IF s[1] = "vec"
             THEN try(draft, take_bytes(d, r.pos, sz, SizeOfVec))
             ELSE IF s[1] = "rows"
             THEN take_rows(draft, d, r.pos, sz, r.value[n], s[2])
             ELSE IF s[1] = "type"
             THEN read_verification_type(draft, d, r.pos, sz)
             ELSE IF s[1] = "types"
             THEN read_verification_types(
                      draft, d, r.pos, sz,
                      IF Len(s) = 2 THEN s[2] ELSE r.value[n])
             ELSE IF s[1] = "frames"
             THEN read_frames(draft, d, r.pos, sz, r.value[n - 1], r.value[n])
             ELSE read_attributes(draft, d, r.pos, sz, cp, container,
                                  r.value[n])
    IN IF x.kind # "ok" THEN x
       ELSE IF s[1] = "flags" THEN r
       ELSE Ok(x.pos, Append(r.value, x.value))

\* the statements of a function in order, from the result r on: the cursor
\* and the values after the last one, or the first failure
RECURSIVE run(_, _, _, _, _, _, _)
run(draft, d, sz, cp, container, statements, r) ==
    IF statements = <<>> \/ r.kind # "ok" THEN r
    ELSE run(draft, d, sz, cp, container, Tail(statements),
             step(draft, d, sz, cp, container, Head(statements), r))

\* the value a function builds from what its statements read
built(r, name) ==
    IF r.kind # "ok" THEN r ELSE Ok(r.pos, [name |-> name, read |-> r.value])

\* the body of the frame loop: `match frame_type { .. }`, each arm with the
\* reads it makes; the frame holds the variant, the frame type and what was
\* read (offset_delta, counts, locals and stack as the arm has them)
read_frame(draft, d, pos, sz, frame_type) ==
    LET u16 == <<"take", "u16">>
        arm ==
            CASE frame_type \in 0..63 -> <<"SameFrame", <<>>>>
              [] frame_type \in 64..127 ->
                   <<"SameLocals1StackItemFrame", <<<<"type">>>>>>
              [] frame_type = 247 ->
                   <<"SameLocals1StackItemFrameExtended", <<u16, <<"type">>>>>>
              [] frame_type \in 248..250 -> <<"ChopFrame", <<u16>>>>
              [] frame_type = 251 -> <<"SameFrameExtended", <<u16>>>>
              [] frame_type \in 252..254 ->
                   <<"AppendFrame", <<u16, <<"types", frame_type - 251>>>>>>
              [] frame_type = 255 ->
                   <<"FullFrame",
                     <<u16, u16, <<"types">>, u16, <<"types">>>>>>
              [] OTHER -> <<"none", <<>>>>
    IN IF arm[1] = "none" THEN try(draft, Err(pos, "InvalidData"))
       ELSE built(run(draft, d, sz, <<>>, {}, arm[2],
                      Ok(pos, <<frame_type>>)), arm[1])

\* `for _ in 0..number_of_entries { match frame_type { .. } }`: frame_type
\* is the local read once before the loop
read_frames(draft, d, pos, sz, n, frame_type) ==
    LET then(f) ==
            IF f.kind # "ok" THEN f
            ELSE cons(f, read_frames(draft, d, f.pos, sz, n - 1, frame_type))
    IN IF n = 0 THEN Ok(pos, <<>>)
       ELSE then(read_frame(draft, d, pos, sz, frame_type))

\* the factories with CodeAttributeFactory::make ending after
\* attributes_count, without the loop over the nested attributes
make_without_nested(name, draft, d, pos, sz, cp, container) ==
    LET u16 == <<"take", "u16">>
        u32 == <<"take", "u32">>
        statements ==
            IF name \in {AttributeName.ConstantValue, AttributeName.SourceFile}
            THEN <<u16, u32, u16>>
            ELSE IF name = AttributeName.LineNumberTable
            THEN <<u16, u32, u16, <<"rows", <<"u16", "u16">>>>>>
            ELSE IF name = AttributeName.StackMapTable
            THEN <<u16, u32, u16, <<"take", "u8">>, <<"frames">>>>
            ELSE IF name = AttributeName.SourceDebugExtension
            THEN <<u16, u32, <<"vec">>>>
            ELSE <<u16, u32, u16, u16, u32, <<"bytes">>,
                   u16, <<"rows", <<"u16", "u16", "u16", "u16">>>>,
                   u16>>
    IN built(run(draft, d, sz, cp, container, statements, Ok(pos, <<>>)),
             name)

\* attr.make(reader, cp, container) of the factory registered under name /
\* the arm of the match on the name: the statements of
\*   ConstantValueAttributeFactory::make and SourceFileAttributeFactory::make
\*   LineNumberTableAttributeFactory::make
\*   StackMapTableAttributeFactory::make
\*   SourceDebugExtensionAttributeFactory::make
\*   CodeAttributeFactory::make
\* and of the decode functions of the decoder draft that match them
make(name, draft, d, pos, sz, cp, container) ==
    LET u16 == <<"take", "u16">>
        u32 == <<"take", "u32">>
        statements ==
            IF name \in {AttributeName.ConstantValue, AttributeName.SourceFile}
            THEN <<u16, u32, u16>>
            ELSE IF name = AttributeName.LineNumberTable
            THEN <<u16, u32, u16, <<"rows", <<"u16", "u16">>>>>>
            ELSE IF name = AttributeName.StackMapTable
            THEN <<u16, u32, u16, <<"take", "u8">>, <<"frames">>>>
            ELSE IF name = AttributeName.SourceDebugExtension
            THEN <<u16, u32, <<"vec">>>>
            ELSE <<u16, u32, u16, u16, u32, <<"bytes">>,
                   u16, <<"rows", <<"u16", "u16", "u16", "u16">>>>,
                   u16, <<"attributes">>>>
    IN built(run(draft, d, sz, cp, container, statements, Ok(pos, <<>>)),
             name)

\* read_attribute / Attribute::decode: the name index is peeked without a
\* bounds test, the name is looked up, and the decoder registered for it
\* reads the attribute from its name index on
read_attribute(draft, d, pos, sz, cp, container) ==
    LET named(name) ==
            IF name.kind # "ok" THEN name
            ELSE IF name.value \notin container
            THEN Err(pos, "UnsupportedAttributeName")
            ELSE make(name.value, draft, d, pos, sz, cp, container)
        then(pk) ==
            IF pk.kind # "ok" THEN pk
            ELSE named(text_or(draft, pos, Text(draft, cp, pk.value),
                               "InvalidData"))
    IN then(try(draft, peek_bytes(d, pos, "u16")))

\* `for _ in 0..attributes_count { read_attribute(..)? }` and its unwrapping
\* counterpart
read_attributes(draft, d, pos, sz, cp, container, n) ==
    LET then(a) ==
            IF a.kind # "ok" THEN a
            ELSE cons(a, read_attributes(draft, d, a.pos, sz, cp, container,
                                         n - 1))
    IN IF n = 0 THEN Ok(pos, <<>>)
       ELSE then(try(draft, read_attribute(draft, d, pos, sz, cp, container)))

-----------------------------------------------------------------------------
(* Fields and methods *)

\* read_field and read_method / Field::decode and Method::decode: what was
\* read is access_flags, name_index, name, descriptor_index, the descriptor
\* text, the descriptor made of it, attributes_count, attributes
read_member(site, draft, d, pos, sz, cp, container) ==
    LET u16 == <<"take", "u16">>
        text == <<"text", "InvalidClassFile">>
    IN built(run(draft, d, sz, cp, container,
                 <<u16, <<"flags", site>>, u16, text, u16, text,
                   <<"descriptor", site>>, u16, <<"attributes">>>>,
                 Ok(pos, <<>>)), site)

-----------------------------------------------------------------------------
(* Class files on the wire: the inputs of the class-file decoder *)

\* a u16 in big-endian order
U2(n) == <<n \div 256, n % 256>>

\* the concatenation of a sequence of byte sequences
RECURSIVE Flatten(_)
Flatten(ss) == IF ss = <<>> THEN <<>> ELSE Head(ss) \o Flatten(Tail(ss))

\* cp_info: the tag byte and the fields of the entry
EntryBytes(e) ==
    <<CHOOSE t \in 1..20 : from_tag(t) = e.tag>> \o
    (CASE e.tag = "Utf8" -> U2(Len(e.bytes)) \o e.bytes
       [] e.tag \in {"Integer", "Float", "Long", "Double"} -> e.bytes
       [] e.tag = "MethodHandle" -> <<e.a>> \o U2(e.b)
       [] e.tag \in {"Class", "String", "MethodType", "Module", "Package"} ->
            U2(e.a)
       [] OTHER -> U2(e.a) \o U2(e.b))

\* attribute_info with a one-index payload (SourceFile, ConstantValue)
FixedBytes(name_index, index) == U2(name_index) \o <<0, 0, 0, 2>> \o U2(index)

\* Code_attribute without exception handlers
CodeBytes(name_index, code, attributes) ==
    U2(name_index)
    \o <<0, 0>> \o U2(12 + Len(code) + Len(Flatten(attributes)))
    \o U2(1) \o U2(1)
    \o <<0, 0>> \o U2(Len(code)) \o code
    \o U2(0)
    \o U2(Len(attributes)) \o Flatten(attributes)

\* field_info / method_info
MemberBytes(access_flags, name_index, descriptor_index, attributes) ==
    U2(access_flags) \o U2(name_index) \o U2(descriptor_index)
    \o U2(Len(attributes)) \o Flatten(attributes)

\* ClassFile: f names the parts, count is the declared constant_pool_count
ClassBytes(f) ==
    f.magic \o U2(0) \o U2(52)
    \o U2(f.count) \o Flatten([i \in DOMAIN f.cp |-> EntryBytes(f.cp[i])])
    \o U2(f.access) \o U2(f.this) \o U2(f.super)
    \o U2(Len(f.interfaces))
    \o Flatten([i \in DOMAIN f.interfaces |-> U2(f.interfaces[i])])
    \o U2(Len(f.fields)) \o Flatten(f.fields)
    \o U2(Len(f.methods)) \o Flatten(f.methods)
    \o U2(Len(f.attributes)) \o Flatten(f.attributes)
    \o f.tail

\* most entries in the pools of the pool family of inputs
MaxPool == 2

\* the entries of the pool family: "I", an ill-formed string, a class, and
\* the numeric kinds, Long and Double among them
PoolChoices ==
    {Utf8(<<73>>), Utf8(<<255>>), Class(1), Integer(<<0, 0, 0, 7>>),
     Float(<<63, 128, 0, 0>>), Long(<<0, 0, 0, 0, 0, 0, 0, 9>>),
     Double(<<64, 0, 0, 0, 0, 0, 0, 0>>)}

\* the pool of the other families: 1 "I", 2 Class(1), 3 "SourceFile",
\* 4 "Code", 5 an Integer
BasePool ==
    <<Utf8(<<73>>), Class(1), Utf8(AttributeName.SourceFile),
      Utf8(AttributeName.Code), Integer(<<0, 0, 0, 7>>)>>

\* a well-formed class without members: public super, this_class and
\* super_class 2
BaseFile ==
    [magic |-> <<202, 254, 186, 190>>, count |-> Len(BasePool) + 1,
     cp |-> BasePool, access |-> 33, this |-> 2, super |-> 2,
     interfaces |-> <<>>, fields |-> <<>>, methods |-> <<>>,
     attributes |-> <<>>, tail |-> <<>>]

\* a class with "LineNumberTable" at index 6 and one method, whose Code
\* attribute (code: return) holds one LineNumberTable of one row, pc 0 at
\* line 1
LineNumberFile ==
    [BaseFile EXCEPT
        !.cp = BasePool \o <<Utf8(AttributeName.LineNumberTable)>>,
        !.count = Len(BasePool) + 2,
        !.methods =
            <<MemberBytes(1, 1, 1,
                  <<CodeBytes(4, <<177>>,
                        <<U2(6) \o <<0, 0, 0, 6>> \o U2(1)
                          \o U2(0) \o U2(1)>>)>>)>>]

\* classes with "SourceDebugExtension" at index 6 and one attribute of that
\* name: a payload of 3 bytes, at the end of the file and before 21 more
\* bytes, and a payload of 24 bytes
DebugExtensionFiles ==
    LET zeros(n) == [i \in 1..n |-> 0]
        file(payload, tail) ==
            [BaseFile EXCEPT
                !.cp = BasePool \o <<Utf8(AttributeName.SourceDebugExtension)>>,
                !.count = Len(BasePool) + 2,
                !.attributes = <<U2(6) \o <<0, 0, 0, payload>>
                                 \o zeros(payload)>>,
                !.tail = zeros(tail)]
    IN {file(3, 0), file(3, 21), file(24, 0)}

\* the class files decoded: BaseFile, and BaseFile changed in one part
ClassFiles ==
    LET source_file == FixedBytes(3, 1)
        code == CodeBytes(4, <<177>>, <<>>)
        members ==
            {<<MemberBytes(1, 1, 1, <<>>)>>,
             <<MemberBytes(1, 1, 1, <<source_file>>)>>,
             <<MemberBytes(1, 1, 1, <<code>>)>>,
             <<MemberBytes(1, 1, 1,
                           <<CodeBytes(4, <<177>>, <<source_file>>)>>)>>,
             <<MemberBytes(32768, 1, 1, <<>>)>>,
             <<MemberBytes(1, 2, 1, <<>>)>>,
             <<MemberBytes(1, 1, 9, <<>>)>>,
             <<MemberBytes(1, 1, 4, <<>>)>>,
             <<MemberBytes(1, 5, 1, <<>>)>>}
    IN {[BaseFile EXCEPT !.cp = p, !.count = Len(p) + 1, !.this = 1,
                         !.super = 1] : p \in SeqsUpTo(PoolChoices, MaxPool)}
       \cup {[BaseFile EXCEPT !.count = c] : c \in 0..(Len(BasePool) + 2)}
       \cup {[BaseFile EXCEPT !.cp = <<Long(<<0, 0, 0, 0, 0, 0, 0, 9>>),
                                       Utf8(<<73>>)>>,
                              !.count = c, !.this = 1, !.super = 1] :
                 c \in 3..4}
       \cup {[BaseFile EXCEPT !.magic = <<202, 254, 186, 191>>],
             [BaseFile EXCEPT !.access = 2],
             [BaseFile EXCEPT !.interfaces = <<2>>],
             [BaseFile EXCEPT !.interfaces = <<9>>],
             [BaseFile EXCEPT !.this = 9],
             [BaseFile EXCEPT !.tail = <<0>>],
             [BaseFile EXCEPT !.interfaces = <<2>>,
                              !.fields = <<MemberBytes(1, 1, 1, <<>>)>>,
                              !.methods = <<MemberBytes(1, 1, 1, <<code>>)>>,
                              !.attributes = <<source_file>>]}
       \cup {LineNumberFile}
       \cup DebugExtensionFiles
       \cup {[BaseFile EXCEPT !.fields = m] : m \in members}
       \cup {[BaseFile EXCEPT !.methods = m] : m \in members}
       \cup {[BaseFile EXCEPT !.attributes = <<a>>] :
                 a \in {source_file, code, FixedBytes(1, 1), FixedBytes(0, 1),
                        FixedBytes(9, 1), FixedBytes(3, 9),
                        U2(3) \o <<0, 0, 0, 3>> \o U2(1)}}

-----------------------------------------------------------------------------
(* The values of the decoding variables while their decoder is not running *)

\* the value of cf while no class file is being decoded
NoClassFile ==
    [draft |-> "", overflow_checks |-> TRUE, container |-> {}, pc |-> "idle",
     outcome |-> "idle", err |-> "", constant_pool_count |-> 0,
     remaining |-> 0, idx |-> 0, stored |-> <<>>, access_flags |-> 0,
     this_class |-> 0, super_class |-> 0, list |-> 0,
     items |-> [interfaces |-> <<>>, fields |-> <<>>, methods |-> <<>>,
                attributes |-> <<>>]]

\* the value of smt while no StackMapTable is being decoded
NoStackMapTable ==
    [draft |-> "", pc |-> "idle", outcome |-> "idle", err |-> "",
     number_of_entries |-> 0, remaining |-> 0, frame_type |-> 0,
     frame_at |-> 0, entries |-> <<>>]

\* the value of desc while no descriptor is being parsed
NoDescriptor == [fn |-> "idle", text |-> <<>>, result |-> <<>>]

\* the value of dec while no code array is being decoded
NoCode ==
    [client |-> "", pc |-> "idle", outcome |-> "idle", err |-> "",
     opcode |-> 0, at |-> 0, instructions |-> <<>>]

-----------------------------------------------------------------------------
(* The pools as state machines: a client calling them in any order *)

\* largest index used by the pool client
MaxIndex == 2
\* most entries pushed onto the Vec pool by the pool client
MaxEntries == 2

\* the entries the pool client inserts: "A", an ill-formed UTF-8 string,
\* numeric constants, and references to the indices in use
ClientEntries ==
    {Utf8(<<65>>), Utf8(<<255>>), Integer(<<255, 255, 255, 254>>),
     Long(<<0, 0, 0, 0, 0, 0, 0, 7>>)}
    \cup {Class(i) : i \in 1..2}
    \cup {String(i) : i \in 1..2}
    \cup {NameAndType(1, 2), MethodRef(1, 2), FieldRef(1, 2), Module(1)}

NoPoolCall == [op |-> "new", index |-> 0, kind |-> "ok", text |-> <<>>]

\* ConstantPool::new() of both drafts
InitPool ==
    /\ pool = <<>>
    /\ entries = <<>>
    /\ tx = NoPoolCall
    /\ data = <<>>
    /\ position = 0
    /\ size = 0
    /\ last = NoCall
    /\ cf = NoClassFile
    /\ smt = NoStackMapTable
    /\ dec = NoCode
    /\ desc = NoDescriptor

\* a client of the pool whose call did not return makes no further call
PoolAlive == tx.kind \notin {"panic", "diverge"}

\* ConstantPool::insert(index, value); a client works with one of the two
\* pool types, here the HashMap one
Insert(index, value) ==
    /\ PoolAlive
    /\ entries = <<>>
    /\ IF index \in DOMAIN pool
       THEN /\ tx' = [op |-> "insert", index |-> index, kind |-> "err",
                      text |-> <<>>]
            /\ pool' = pool
       ELSE /\ pool' = [i \in DOMAIN pool \cup {index} |->
                           IF i = index THEN value ELSE pool[i]]
            /\ tx' = [op |-> "insert", index |-> index, kind |-> "ok",
                      text |-> <<>>]
    /\ UNCHANGED entries
    /\ UNCHANGED readerVars
    /\ UNCHANGED decodeVars

\* ConstantPool::remove(index)
Remove(index) ==
    /\ PoolAlive
    /\ pool' = [i \in DOMAIN pool \ {index} |-> pool[i]]
    /\ tx' = [op |-> "remove", index |-> index,
              kind |-> IF index \in DOMAIN pool THEN "some" ELSE "none",
              text |-> <<>>]
    /\ UNCHANGED entries
    /\ UNCHANGED readerVars
    /\ UNCHANGED decodeVars

\* ConstantPool::get(index)
Get(index) ==
    /\ PoolAlive
    /\ tx' = [op |-> "get", index |-> index,
              kind |-> IF get(pool, index) = Absent THEN "none" ELSE "some",
              text |-> <<>>]
    /\ UNCHANGED <<pool, entries>>
    /\ UNCHANGED readerVars
    /\ UNCHANGED decodeVars

\* ConstantPool::text_of(index)
TextOf(index) ==
    /\ PoolAlive
    /\ LET r == text_of(pool, index)
       IN tx' = [op |-> "text_of", index |-> index, kind |-> r.kind,
                 text |-> r.text]
    /\ UNCHANGED <<pool, entries>>
    /\ UNCHANGED readerVars
    /\ UNCHANGED decodeVars

\* types ConstantPool::add(entry); the client of the Vec pool
Add(value) ==
    /\ PoolAlive
    /\ DOMAIN pool = {}
    /\ Len(entries) < MaxEntries
    /\ entries' = Append(entries, value)
    /\ tx' = [op |-> "add", index |-> Len(entries) + 1, kind |-> "ok",
              text |-> <<>>]
    /\ UNCHANGED pool
    /\ UNCHANGED readerVars
    /\ UNCHANGED decodeVars

\* types ConstantPool::get_by_index(idx)
GetByIndex(index) ==
    /\ PoolAlive
    /\ tx' = [op |-> "get_by_index", index |-> index,
              kind |-> IF get_by_index(entries, index) = Absent
                       THEN "none" ELSE "some",
              text |-> <<>>]
    /\ UNCHANGED <<pool, entries>>
    /\ UNCHANGED readerVars
    /\ UNCHANGED decodeVars

\* types ConstantPool::text_of_value(index)
TextOfValue(index) ==
    /\ PoolAlive
    /\ LET r == text_of_value(entries, index)
       IN tx' = [op |-> "text_of_value", index |-> index, kind |-> r.kind,
                 text |-> r.text]
    /\ UNCHANGED <<pool, entries>>
    /\ UNCHANGED readerVars
    /\ UNCHANGED decodeVars

NextPool ==
    \/ \E i \in 0..MaxIndex, e \in ClientEntries : Insert(i, e)
    \/ \E i \in 0..MaxIndex : Remove(i)
    \/ \E i \in 0..MaxIndex : Get(i)
    \/ \E i \in 0..MaxIndex : TextOf(i)
    \/ \E e \in ClientEntries : Add(e)
    \/ \E i \in 0..MaxIndex : GetByIndex(i)
    \/ \E i \in 0..MaxIndex : TextOfValue(i)

SpecPool == InitPool /\ [][NextPool]_vars

-----------------------------------------------------------------------------
(* The reader as a state machine: a client calling it in any order *)

\* BufferedReader::new(data)
InitReader ==
    /\ data \in SeqsUpTo(ReaderBytes, MaxData)
    /\ position = 0
    /\ size = Len(data)
    /\ last = NoCall
    /\ pool = <<>>
    /\ entries = <<>>
    /\ tx = NoPoolCall
    /\ cf = NoClassFile
    /\ smt = NoStackMapTable
    /\ dec = NoCode
    /\ desc = NoDescriptor

Alive == last.kind # "panic"

Take(T) ==
    /\ Alive
    /\ LET r == take(data, position, size, T)
       IN /\ position' = r.pos
          /\ last' = [op |-> "take", T |-> T, n |-> TypeWidth[T],
                      before |-> position, kind |-> r.kind, err |-> r.err,
                      value |-> r.value]
    /\ UNCHANGED <<data, size>>
    /\ UNCHANGED poolVars
    /\ UNCHANGED decodeVars

TakeBytes(n) ==
    /\ Alive
    /\ LET r == take_bytes(data, position, size, n)
       IN /\ position' = r.pos
          /\ last' = [op |-> "take_bytes", T |-> "", n |-> n,
                      before |-> position, kind |-> r.kind, err |-> r.err,
                      value |-> r.value]
    /\ UNCHANGED <<data, size>>
    /\ UNCHANGED poolVars
    /\ UNCHANGED decodeVars

PeekBytes(T) ==
    /\ Alive
    /\ LET r == peek_bytes(data, position, T)
       IN /\ position' = r.pos
          /\ last' = [op |-> "peek_bytes", T |-> T, n |-> TypeWidth[T],
                      before |-> position, kind |-> r.kind, err |-> r.err,
                      value |-> r.value]
    /\ UNCHANGED <<data, size>>
    /\ UNCHANGED poolVars
    /\ UNCHANGED decodeVars

HasRemainingData ==
    /\ Alive
    /\ last' = [op |-> "has_remaining_data", T |-> "", n |-> 0,
                before |-> position, kind |-> "ok", err |-> "",
                value |-> has_remaining_data(data, position)]
    /\ UNCHANGED <<data, position, size>>
    /\ UNCHANGED poolVars
    /\ UNCHANGED decodeVars

NextReader ==
    \/ \E T \in PrimTypes : Take(T)
    \/ \E n \in 0..MaxTake : TakeBytes(n)
    \/ \E T \in PrimTypes : PeekBytes(T)
    \/ HasRemainingData

SpecReader == InitReader /\ [][NextReader]_vars

-----------------------------------------------------------------------------
(* read_classfile / ClassFile::decode as a state machine: one step per      *)
(* statement or loop iteration of the function                              *)

\* the Containers handed to read_classfile: Container::new() as it is, the
\* one the example programs fill, and one with every modelled factory
Containers == {{}, ExampleContainer, StandardAttributes}

\* the lists read after super_class, in the order of the function
Lists == <<"interfaces", "fields", "methods", "attributes">>

\* BufferedReader::new(input), ConstantPool::new(), and the call of the
\* decoder: on a class file of ClassFiles or a prefix of one.  The build
\* (overflow checks on or off) is varied where constant_pool_count - 1 can
\* overflow, the Container where attributes are read through it
InitClass ==
    /\ \E f \in ClassFiles, draft \in Drafts :
           /\ data \in {SubSeq(ClassBytes(f), 1, k) :
                            k \in 0..Len(ClassBytes(f))}
           /\ cf \in {[NoClassFile EXCEPT
                          !.draft = draft, !.overflow_checks = o,
                          !.container = c, !.pc = "magic",
                          !.outcome = "running"] :
                        o \in (IF f.count = 0 THEN BOOLEAN ELSE {TRUE}),
                        c \in (IF draft = "bytecode"
                                  /\ f.fields \o f.methods \o f.attributes # <<>>
                               THEN Containers ELSE {StandardAttributes})}
    /\ position = 0
    /\ size = Len(data)
    /\ last = NoCall
    /\ pool = <<>>
    /\ entries = <<>>
    /\ tx = NoPoolCall
    /\ smt = NoStackMapTable
    /\ dec = NoCode
    /\ desc = NoDescriptor

\* the function is at the statement pc
At(pc) == cf.outcome = "running" /\ cf.pc = pc

\* the function ends here with the result r, which is not Ok: an Err
\* returned, a panic, or a call that does not return
Fail(r) ==
    /\ cf' = [cf EXCEPT !.outcome = r.kind, !.err = r.err]
    /\ position' = r.pos

\* the statement after a loop header that found n iterations to run
Enter(loop, n, after) == IF n = 0 THEN after ELSE loop

\* the statement after list k is complete
AfterList(k) == IF k = Len(Lists) THEN "return" ELSE "count"

\* the pool the draft works on
Cp == IF cf.draft = "bytecode" THEN pool ELSE entries

\* let magic_number = reader.take::<u32>(); if magic_number != 0xCAFEBABE
ReadMagic ==
    /\ At("magic")
    /\ LET r == try(cf.draft, take(data, position, size, "u32"))
       IN IF r.kind # "ok" THEN Fail(r)
          ELSE IF r.value # <<202, 254, 186, 190>>
          THEN Fail(Err(r.pos, "InvalidClassFile"))
          ELSE /\ cf' = [cf EXCEPT !.pc = "version"]
               /\ position' = r.pos
    /\ UNCHANGED <<data, size, last, poolVars, smt, dec, desc>>

\* minor_version and major_version
ReadVersion ==
    /\ At("version")
    /\ LET r == take_all(cf.draft, data, position, size, <<"u16", "u16">>)
       IN IF r.kind # "ok" THEN Fail(r)
          ELSE /\ cf' = [cf EXCEPT !.pc = "constant_pool_count"]
               /\ position' = r.pos
    /\ UNCHANGED <<data, size, last, poolVars, smt, dec, desc>>

\* constant_pool_count, and the range of the pool loop: the subtraction
\* constant_pool_count - 1 on a u16 panics on 0 where overflow is checked and
\* wraps to 65535 where it is not
ReadConstantPoolCount ==
    /\ At("constant_pool_count")
    /\ LET r == try(cf.draft, take(data, position, size, "u16"))
       IN IF r.kind # "ok" THEN Fail(r)
          ELSE IF r.value = 0 /\ cf.overflow_checks THEN Fail(Abort(r.pos))
          ELSE LET n == IF r.value = 0 THEN 65535 ELSE r.value - 1
               IN /\ cf' = [cf EXCEPT
                               !.constant_pool_count = r.value,
                               !.remaining = n, !.idx = 1,
                               !.pc = Enter("constant_pool", n,
                                            "access_flags")]
                  /\ position' = r.pos
    /\ UNCHANGED <<data, size, last, poolVars, smt, dec, desc>>

\* one iteration of the pool loop: the entry is read and stored, under the
\* loop index (cp.insert(idx, entry)?) or at the end of the Vec (add)
ReadConstantPoolEntry ==
    /\ At("constant_pool")
    /\ LET r == read_constant_pool_entry(cf.draft, data, position, size)
           at == IF cf.draft = "bytecode" THEN cf.idx ELSE Len(entries) + 1
       IN IF r.kind # "ok" THEN Fail(r) /\ UNCHANGED <<pool, entries>>
          ELSE IF cf.draft = "bytecode" /\ cf.idx \in DOMAIN pool
          THEN /\ Fail(Err(r.pos, "ConstantPoolEntryAlreadyExists"))
               /\ UNCHANGED <<pool, entries>>
          ELSE /\ position' = r.pos
               /\ IF cf.draft = "bytecode"
                  THEN /\ pool' = [i \in DOMAIN pool \cup {cf.idx} |->
                                      IF i = cf.idx THEN r.value ELSE pool[i]]
                       /\ UNCHANGED entries
                  ELSE /\ entries' = Append(entries, r.value)
                       /\ UNCHANGED pool
               /\ cf' = [cf EXCEPT
                            !.stored = Append(@, at),
                            !.idx = @ + 1, !.remaining = @ - 1,
                            !.pc = Enter("constant_pool", cf.remaining - 1,
                                         "access_flags")]
    /\ UNCHANGED <<data, size, last, tx, smt, dec, desc>>

\* access_flags and ClassAccessFlags::from_bits
ReadAccessFlags ==
    /\ At("access_flags")
    /\ LET r == try(cf.draft, take(data, position, size, "u16"))
       IN IF r.kind # "ok" THEN Fail(r)
          ELSE IF ~from_bits("class", r.value)
          THEN Fail(Err(r.pos, "InvalidClassFile"))
          ELSE /\ cf' = [cf EXCEPT !.access_flags = r.value,
                                   !.pc = "this_class"]
               /\ position' = r.pos
    /\ UNCHANGED <<data, size, last, poolVars, smt, dec, desc>>

\* this_class and super_class
ReadThisSuper ==
    /\ At("this_class")
    /\ LET r == take_all(cf.draft, data, position, size, <<"u16", "u16">>)
       IN IF r.kind # "ok" THEN Fail(r)
          ELSE /\ cf' = [cf EXCEPT !.this_class = r.value[1],
                                   !.super_class = r.value[2],
                                   !.pc = "count", !.list = 1]
               /\ position' = r.pos
    /\ UNCHANGED <<data, size, last, poolVars, smt, dec, desc>>

\* interfaces_count, fields_count, methods_count and attributes_count: the
\* header of the loop over the next list
ReadCount ==
    /\ At("count")
    /\ LET r == try(cf.draft, take(data, position, size, "u16"))
       IN IF r.kind # "ok" THEN Fail(r)
          ELSE /\ cf' = [cf EXCEPT
                            !.remaining = r.value,
                            !.pc = Enter("item", r.value, AfterList(cf.list)),
                            !.list = IF r.value = 0 /\ @ < Len(Lists)
                                     THEN @ + 1 ELSE @]
               /\ position' = r.pos
    /\ UNCHANGED <<data, size, last, poolVars, smt, dec, desc>>

\* one iteration of the loop over a list: read_interface, read_field,
\* read_method or read_attribute, and the push of what it returned
ReadItem ==
    /\ At("item")
    /\ LET l == Lists[cf.list]
           r == CASE l = "interfaces" ->
                       try(cf.draft, take(data, position, size, "u16"))
                  [] l = "fields" ->
                       try(cf.draft,
                           read_member("field", cf.draft, data, position,
                                       size, Cp, cf.container))
                  [] l = "methods" ->
                       try(cf.draft,
                           read_member("method", cf.draft, data, position,
                                       size, Cp, cf.container))
                  [] l = "attributes" ->
                       try(cf.draft,
                           read_attribute(cf.draft, data, position, size, Cp,
                                          cf.container))
       IN IF r.kind # "ok" THEN Fail(r)
          ELSE /\ cf' = [cf EXCEPT
                            !.items[l] = Append(@, r.value),
                            !.remaining = @ - 1,
                            !.pc = Enter("item", cf.remaining - 1,
                                         AfterList(cf.list)),
                            !.list = IF cf.remaining = 1 /\ @ < Len(Lists)
                                     THEN @ + 1 ELSE @]
               /\ position' = r.pos
    /\ UNCHANGED <<data, size, last, poolVars, smt, dec, desc>>

\* Ok(ClassFile { .. }): the function returns what it has read
ReturnClassFile ==
    /\ At("return")
    /\ cf' = [cf EXCEPT !.outcome = "ok", !.pc = "done"]
    /\ UNCHANGED <<readerVars, poolVars, smt, dec, desc>>

NextClass ==
    \/ ReadMagic
    \/ ReadVersion
    \/ ReadConstantPoolCount
    \/ ReadConstantPoolEntry
    \/ ReadAccessFlags
    \/ ReadThisSuper
    \/ ReadCount
    \/ ReadItem
    \/ ReturnClassFile

SpecClass == InitClass /\ [][NextClass]_vars

-----------------------------------------------------------------------------
(* StackMapTableAttributeFactory::make / StackMapTableInfo::decode as a     *)
(* state machine: one step per statement or loop iteration                  *)

\* most frames in a StackMapTable on input
MaxFrames == 2

\* the frames on input, each with its leading frame-type byte: same (10),
\* same locals 1 stack item (64, Integer), chop 2 (249), same extended (251),
\* append 1 (252, Object 2), full (255, one local, no stack), and a frame
\* type no arm takes (200)
FrameChoices ==
    {<<10>>, <<64, 1>>, <<249, 0, 3>>, <<251, 0, 2>>, <<252, 0, 1, 7, 0, 2>>,
     <<255, 0, 0, 0, 1, 1, 0, 0>>, <<200>>}

\* the attributes on input: the name index, the length, the number of
\* entries, and that many frames
StackMapTables ==
    {U2(1) \o <<0, 0, 0, 2 + Len(Flatten(f))>> \o U2(Len(f)) \o Flatten(f) :
         f \in SeqsUpTo(FrameChoices, MaxFrames)}

\* the decoder is called on an attribute of StackMapTables or a prefix of one
InitStackMap ==
    /\ \E t \in StackMapTables :
           data \in {SubSeq(t, 1, k) : k \in 0..Len(t)}
    /\ \E draft \in Drafts :
           smt = [NoStackMapTable EXCEPT !.draft = draft, !.pc = "header",
                                         !.outcome = "running"]
    /\ position = 0
    /\ size = Len(data)
    /\ last = NoCall
    /\ pool = <<>>
    /\ entries = <<>>
    /\ tx = NoPoolCall
    /\ cf = NoClassFile
    /\ dec = NoCode
    /\ desc = NoDescriptor

\* attribute_name_index, attribute_length and number_of_entries
ReadTableHeader ==
    /\ smt.outcome = "running" /\ smt.pc = "header"
    /\ LET r == take_all(smt.draft, data, position, size,
                         <<"u16", "u32", "u16">>)
       IN /\ position' = r.pos
          /\ smt' = IF r.kind # "ok"
                    THEN [smt EXCEPT !.outcome = r.kind, !.err = r.err]
                    ELSE [smt EXCEPT !.number_of_entries = r.value[3],
                                     !.remaining = r.value[3],
                                     !.pc = "frame_type"]
    /\ UNCHANGED <<data, size, last, poolVars, cf, dec, desc>>

\* let frame_type = reader.take::<u8>(), the statement before the loop
ReadFrameType ==
    /\ smt.outcome = "running" /\ smt.pc = "frame_type"
    /\ LET r == try(smt.draft, take(data, position, size, "u8"))
       IN /\ position' = r.pos
          /\ smt' = IF r.kind # "ok"
                    THEN [smt EXCEPT !.outcome = r.kind, !.err = r.err]
                    ELSE [smt EXCEPT
                             !.frame_type = r.value, !.frame_at = position,
                             !.pc = Enter("frames", smt.remaining, "return")]
    /\ UNCHANGED <<data, size, last, poolVars, cf, dec, desc>>

\* one iteration of the frame loop: the match on frame_type, and the push.
\* The frame is kept with the position its first byte has on input: that of
\* the frame type for the first frame, the cursor for the later ones
ReadFrame ==
    /\ smt.outcome = "running" /\ smt.pc = "frames"
    /\ LET r == read_frame(smt.draft, data, position, size, smt.frame_type)
           at == IF smt.entries = <<>> THEN smt.frame_at ELSE position
       IN /\ position' = r.pos
          /\ smt' = IF r.kind # "ok"
                    THEN [smt EXCEPT !.outcome = r.kind, !.err = r.err]
                    ELSE [smt EXCEPT
                             !.entries = Append(@, [at |-> at,
                                                    frame |-> r.value]),
                             !.remaining = @ - 1,
                             !.pc = Enter("frames", smt.remaining - 1,
                                          "return")]
    /\ UNCHANGED <<data, size, last, poolVars, cf, dec, desc>>

\* Ok(Box::new(StackMapTableInfo { .. }))
ReturnStackMapTable ==
    /\ smt.outcome = "running" /\ smt.pc = "return"
    /\ smt' = [smt EXCEPT !.outcome = "ok"]
    /\ UNCHANGED <<readerVars, poolVars, cf, dec, desc>>

NextStackMap ==
    \/ ReadTableHeader
    \/ ReadFrameType
    \/ ReadFrame
    \/ ReturnStackMapTable

SpecStackMap == InitStackMap /\ [][NextStackMap]_vars

-----------------------------------------------------------------------------
(* The instruction decoder: parse_instruction and the factories, and the    *)
(* loop the example programs run over a code array                          *)

\* the factories with Invokespecial::create_instruction reading nothing, as
\* Invokestatic::create_instruction does
create_instruction_invokespecial_bare(op) ==
    IF op \in {16, 24, 25, 57, 58, 83, 182, 187, 189, 192}
    THEN <<"u16">>
    ELSE IF op = 18 THEN <<"u8">>
    ELSE IF op = 178 THEN <<"u8", "u8">>
    ELSE <<>>

\* the operands X::create_instruction takes from the buffer, X the struct
\* whose OPCODE is op in the match of parse_instruction: a u16 for bipush
\* (16), dload (24), aload (25), dstore (57), astore (58), aastore (83),
\* invokevirtual (182), invokespecial (183), new (187), anewarray (189) and
\* checkcast (192); a u8 for ldc (18); two u8 for getstatic (178); nothing
\* for the other opcodes up to jsr_w (201)
create_instruction(op) ==
    IF op \in {16, 24, 25, 57, 58, 83, 182, 183, 187, 189, 192}
    THEN <<"u16">>
    ELSE IF op = 18 THEN <<"u8">>
    ELSE IF op = 178 THEN <<"u8", "u8">>
    ELSE <<>>

\* X::MNEMONIC of the struct X whose OPCODE is op, at index op + 1, for the
\* 202 instruction structs (opcodes 0x00 nop to 0xc9 jsr_w)
MNEMONIC ==
    <<"nop", "aastore", "iconst_m1", "iconst_0", "iconst_1", "iconst_2",
      "iconst_3", "iconst_4", "iconst_5", "lconst_0", "lconst_1", "fconst_0",
      "fconst_1", "fconst_2", "dconst_0", "dconst_1", "bipush", "sipush",
      "ldc", "ldc_w", "ldc2_w", "iload", "lload", "fload", "dload", "aload",
      "iload_0", "iload_1", "iload_2", "iload_3", "lload_0", "lload_1",
      "lload_2", "lload_3", "fload_0", "fload_1", "fload_2", "fload_3",
      "dload_0", "dload_1", "dload_2", "dload_3", "aload_0", "aload_1",
      "aload_2", "aload_3", "iaload", "laload", "faload", "daload", "aaload",
      "baload", "caload", "saload", "istore", "lstore", "fstore", "dstore",
      "astore", "istore_0", "istore_1", "istore_2", "istore_3", "lstore_0",
      "lstore_1", "lstore_2", "lstore_3", "fstore_0", "fstore_1", "fstore_2",
      "fstore_3", "dstore_0", "dstore_1", "dstore_2", "dstore_3", "astore_0",
      "astore_1", "astore_2", "astore_3", "iastore", "lastore", "fastore",
      "dastore", "aastore", "bastore", "castore", "sastore", "pop", "pop2",
      "dup", "dup_x1", "dup_x2", "dup2", "dup2_x1", "dup2_x2", "swap", "iadd",
      "ladd", "fadd", "dadd", "isub", "lsub", "fsub", "dsub", "imul", "lmul",
      "fmul", "dmul", "idiv", "ldiv", "fdiv", "ddiv", "irem", "lrem", "frem",
      "drem", "ineg", "lneg", "fneg", "dneg", "ishl", "lshl", "ishr", "lshr",
      "iushr", "lushr", "iand", "land", "ior", "lor", "ixor", "lxor", "iinc",
      "i2l", "i2f", "i2d", "l2i", "l2f", "l2d", "f2i", "f2l", "f2d", "d2i",
      "d2l", "d2f", "i2b", "i2c", "i2s", "lcmp", "fcmpl", "fcmpg", "dcmpl",
      "dcmpg", "ifeq", "ifne", "iflt", "ifge", "ifgt", "ifle", "if_icmpeq",
      "if_icmpne", "if_icmplt", "if_icmpge", "if_icmpgt", "if_icmple",
      "if_acmpeq", "if_acmpne", "goto", "jsr", "ret", "tableswitch",
      "lookupswitch", "ireturn", "lreturn", "freturn", "dreturn", "areturn",
      "return", "getstatic", "putstatic", "getfield", "putfield",
      "invokevirtual", "invokespecial", "invokestatic", "invokeinterface",
      "invokedynamic", "new", "newarray", "anewarray", "arraylength",
      "athrow", "checkcast", "instanceof", "monitorenter", "monitorexit",
      "wide", "multianewarray", "ifnull", "ifnonnull", "goto_w", "jsr_w">>

\* Instruction::name() of a decoded instruction: every struct overrides it
\* with `Self::MNEMONIC`
name(x) == MNEMONIC[x.opcode + 1]

\* Instruction::size(): the default of the trait, 1, which no struct
\* overrides
size_(x) == 1

\* Instruction::index_of_next_instruction(current, is_wide)
index_of_next_instruction(x, current, is_wide) == current + size_(x)

\* Instruction::to_bytecode_string(): the name, then " #{}" of every
\* argument
to_bytecode_string(x) ==
    LET RECURSIVE pushed(_)
        pushed(n) == IF n = 0 THEN name(x)
                     ELSE pushed(n - 1) \o " #" \o ToString(x.args[n])
    IN pushed(Len(x.args))

\* parse_instruction(op, buffer): `X::OPCODE => Ok(X::create_instruction(
\* buffer)?)` for the 202 opcodes that have an arm, and
\* `_ => Err(UnsupportedInstruction)`
parse_instruction(op, d, pos, sz) ==
    IF op \in 0..201
    THEN take_all("bytecode", d, pos, sz, create_instruction(op))
    ELSE Err(pos, "UnsupportedInstruction")

\* longest code array of the instruction family on input
MaxCode == 5

\* the opcodes the instruction family is made of: wide, iload, aload, iinc
CodeAlphabet == {196, 21, 25, 132}

\* the switches on input, each the opcode and what follows the padding: a
\* tableswitch (default 16, low 1, high 2, two offsets) and a lookupswitch
\* (default 16, one pair 5: 16)
SwitchBytes ==
    {<<170, <<0, 0, 0, 16,  0, 0, 0, 1,  0, 0, 0, 2,
              0, 0, 0, 16,  0, 0, 0, 20>>>>,
     <<171, <<0, 0, 0, 16,  0, 0, 0, 1,  0, 0, 0, 5,  0, 0, 0, 16>>>>}

\* the code arrays on input: every opcode byte followed by up to three
\* operand bytes; every opcode byte after a wide prefix with two operand
\* bytes, and once more with one; the sequences over CodeAlphabet; an
\* invokedynamic and a nop; aload_0, invokespecial #1, return; and the
\* switches after 0 to 3 nops, padded to the next multiple of 4
CodeArrays ==
    {<<op>> \o SubSeq(<<1, 0, 1>>, 1, k) : op \in 0..255, k \in 0..3}
    \cup {<<196, op, 0, 1, op, 1>> : op \in 0..255}
    \cup SeqsUpTo(CodeAlphabet, MaxCode)
    \cup {<<186, 0, 1, 0, 0, 0>>}
    \cup {<<42, 183, 0, 1, 177>>}
    \cup {[i \in 1..k |-> 0] \o <<s[1]>> \o [i \in 1..(3 - k) |-> 0] \o s[2] :
              k \in 0..3, s \in SwitchBytes}

\* the programs that run the loop: examples/instructions.rs ends on the
\* first instruction that fails to parse (.expect), examples/instrcfg.rs
\* reports it and goes on (continue)
Clients == {"instructions", "instrcfg"}

\* BufferedReader::new(&attr.code), before the first test of the loop
InitInstr ==
    /\ data \in CodeArrays
    /\ \E c \in Clients :
           dec = [NoCode EXCEPT !.client = c, !.pc = "while",
                                !.outcome = "running"]
    /\ position = 0
    /\ size = Len(data)
    /\ last = NoCall
    /\ pool = <<>>
    /\ entries = <<>>
    /\ tx = NoPoolCall
    /\ cf = NoClassFile
    /\ smt = NoStackMapTable
    /\ desc = NoDescriptor

\* `while !reader.has_remaining_data()` finds the loop at its end
EndOfCode ==
    /\ dec.outcome = "running" /\ dec.pc = "while"
    /\ has_remaining_data(data, position)
    /\ dec' = [dec EXCEPT !.outcome = "ok"]
    /\ UNCHANGED <<readerVars, poolVars, cf, smt, desc>>

\* the loop goes on: let opcode = reader.take::<u8>().unwrap()
TakeOpcode ==
    /\ dec.outcome = "running" /\ dec.pc = "while"
    /\ ~has_remaining_data(data, position)
    /\ LET r == try("decoder", take(data, position, size, "u8"))
       IN /\ position' = r.pos
          /\ dec' = IF r.kind # "ok" THEN [dec EXCEPT !.outcome = r.kind]
                    ELSE [dec EXCEPT !.opcode = r.value, !.at = position,
                                     !.pc = "parse"]
    /\ UNCHANGED <<data, size, last, poolVars, cf, smt, desc>>

\* parse_instruction(opcode, &mut reader), and what the program does with
\* the result: the instruction is printed or pushed; an Err ends
\* examples/instructions.rs with a panic and makes examples/instrcfg.rs go
\* to the next iteration.  The instruction is kept with the position of its
\* opcode and the number of operand bytes its factory took
ParseInstruction ==
    /\ dec.outcome = "running" /\ dec.pc = "parse"
    /\ LET r == parse_instruction(dec.opcode, data, position, size)
       IN /\ position' = r.pos
          /\ dec' = IF r.kind = "ok"
                    THEN [dec EXCEPT
                             !.pc = "while",
                             !.instructions =
                                 Append(@, [opcode |-> dec.opcode,
                                            at |-> dec.at,
                                            operands |-> r.pos - position,
                                            args |-> r.value])]
                    ELSE IF dec.client = "instructions"
                    THEN [dec EXCEPT !.outcome = "panic", !.err = r.err]
                    ELSE [dec EXCEPT !.pc = "while", !.err = r.err]
    /\ UNCHANGED <<data, size, last, poolVars, cf, smt, desc>>

NextInstr ==
    \/ EndOfCode
    \/ TakeOpcode
    \/ ParseInstruction

SpecInstr == InitInstr /\ [][NextInstr]_vars

-----------------------------------------------------------------------------
(* The descriptor parsers as a state machine: a text, and one call on it *)

\* longest descriptor on input
MaxDescriptor == 4

\* the characters descriptors on input are made of
DescriptorChars ==
    {Char.I, Char.V, Char.L, Char.semicolon, Char.bracket, Char.open,
     Char.close}

\* the descriptors of the tests of bytecode::descriptors:
\* "(IDLjava/lang/String;)V" and "[[Ljava/lang/String;"
DescriptorExamples ==
    LET String_ == <<76, 106, 97, 118, 97, 47, 108, 97, 110, 103, 47,
                     83, 116, 114, 105, 110, 103, 59>>
    IN [method |-> <<40, 73, 68>> \o String_ \o <<41, 86>>,
        field |-> <<91, 91>> \o String_]

\* a descriptor text, before a parser is called on it
InitDescriptor ==
    /\ desc \in {[NoDescriptor EXCEPT !.fn = "new", !.text = t] :
                    t \in SeqsUpTo(DescriptorChars, MaxDescriptor)
                          \cup {DescriptorExamples.method,
                                DescriptorExamples.field}}
    /\ data = <<>>
    /\ position = 0
    /\ size = 0
    /\ last = NoCall
    /\ pool = <<>>
    /\ entries = <<>>
    /\ tx = NoPoolCall
    /\ cf = NoClassFile
    /\ smt = NoStackMapTable
    /\ dec = NoCode

\* the call fn(desc.text) and its result r
Parsed(fn, r) ==
    /\ desc.fn = "new"
    /\ desc' = [desc EXCEPT !.fn = fn, !.result = r]
    /\ UNCHANGED <<readerVars, poolVars, cf, smt, dec>>

ParseFromField == Parsed("parse_from_field", parse_from_field(desc.text))

ParseFromMethod == Parsed("parse_from_method", parse_from_method(desc.text))

ParseMethodDescriptor ==
    Parsed("parse_method_descriptor", parse_method_descriptor(desc.text))

\* descriptor.to_string() on the Descriptor parse_from_field returned:
\* <Descriptor as Display>::fmt writes "{}" of its type
DisplayDescriptor ==
    /\ desc.fn = "parse_from_field"
    /\ desc.result.kind = "ok"
    /\ desc' = [desc EXCEPT !.fn = "to_string",
                            !.result = Ok(0, FieldType_fmt(@.value[1].ty))]
    /\ UNCHANGED <<readerVars, poolVars, cf, smt, dec>>

NextDescriptor ==
    \/ ParseFromField
    \/ ParseFromMethod
    \/ ParseMethodDescriptor
    \/ DisplayDescriptor

SpecDescriptor == InitDescriptor /\ [][NextDescriptor]_vars

-----------------------------------------------------------------------------
(* Properties of the reader *)

PeekIsTakeWithoutMoving ==
    last.op = "peek_bytes" =>
        /\ position = last.before
        /\ last.before + last.n <= size =>
              /\ last.kind = "ok"
              /\ last.value = take(data, last.before, size, last.T).value
        /\ last.before + last.n > size =>
              /\ last.kind = "err"
              /\ last.err = "UnexpectedEndOfData"

\* C7: has_remaining_data returns true exactly when position < size.
HasRemainingIffBytesLeft ==
    last.op = "has_remaining_data" => (last.value <=> position < size)

-----------------------------------------------------------------------------
(* Properties of the constant pool *)

\* C2: text_of(index) (and text_of_value(index)) terminates for every pool
\* and every index, reference cycles such as 1:Class(2), 2:Class(1)
\* included: the call comes to an end instead of recursing without bound.
TextOfTerminates ==
    tx.op \in {"text_of", "text_of_value"} => tx.kind # "diverge"

\* C20: whenever all indices an entry refers to resolve, text_of returns a
\* string for an entry of each of these kinds, in the stated form: the
\* decoded text of a (well-formed) Utf8; the referent's text for String,
\* Class, Module and Package; owner text, a dot, name-and-type text for
\* FieldRef, MethodRef and InterfaceMethodRef; name, ": ", descriptor for
\* NameAndType; the decimal rendering for Integer and Float; and some string
\* for Long and Double.
TextOfStatedForm ==
    tx.op = "text_of" /\ tx.index \in DOMAIN pool =>
        LET e == pool[tx.index]
            t(i) == text_of(pool, i).text
            One == {"String", "Class", "Module", "Package"}
            Ref == {"FieldRef", "MethodRef", "InterfaceMethodRef"}
            Num == {"Integer", "Float", "Long", "Double"}
            Refers == IF e.tag \in One THEN {e.a}
                      ELSE IF e.tag \in Ref \cup {"NameAndType"}
                           THEN {e.a, e.b}
                      ELSE {}
            StatedText ==
                CASE e.tag = "Utf8" -> e.bytes
                  [] e.tag \in One -> t(e.a)
                  [] e.tag \in Ref -> t(e.a) \o <<46>> \o t(e.b)
                  [] e.tag = "NameAndType" -> t(e.a) \o <<58, 32>> \o t(e.b)
                  [] e.tag = "Integer" -> I32ToString(e.bytes)
                  [] e.tag = "Float" -> F32ToString(e.bytes)
        IN /\ e.tag \in {"Utf8", "NameAndType"} \cup One \cup Ref \cup Num
           /\ e.tag = "Utf8" => ValidUtf8(e.bytes)
           /\ \A j \in Refers : text_of(pool, j).kind = "some"
           => /\ tx.kind = "some"
              /\ e.tag \notin {"Long", "Double"} => tx.text = StatedText

\* C21: index 0 is never a valid pool index: an insert at index 0 is
\* rejected, no pool holds an entry at index 0, and get(0), text_of(0),
\* get_by_index(0) and text_of_value(0) fail.
IndexZeroNeverValid ==
    /\ tx.op = "insert" /\ tx.index = 0 => tx.kind = "err"
    /\ 0 \notin DOMAIN pool
    /\ tx.op \in {"get", "text_of", "get_by_index", "text_of_value"}
       /\ tx.index = 0 => tx.kind = "none"

-----------------------------------------------------------------------------
(* Properties of the class-file decoder *)

\* C1: for every input byte sequence, truncated and malformed ones included,
\* the class-file decode entry point returns a class file or a tagged error:
\* it never ends in a panic.
DecodeNeverPanics == cf.outcome # "panic"

\* C3: whenever the decoder accepts an input, the reader's position equals
\* its size at return; an input with bytes left after the last class-level
\* attribute is not accepted (it is rejected with InvalidData).
AcceptedInputIsExhausted == cf.outcome = "ok" => position = size

\* C4: when the pool loop has decoded a Long or Double at index i, index i+1
\* is skipped: the entry read next is stored at index i+2, a lookup at index
\* i+1 fails, and no entry is stored beyond index constant_pool_count - 1.
LongDoubleSkipNextIndex ==
    \A k \in 1..Len(cf.stored) :
        LET i == cf.stored[k]
            e == IF cf.draft = "bytecode" THEN pool[i] ELSE entries[i]
            lookup(j) == IF cf.draft = "bytecode" THEN get(pool, j)
                         ELSE get_by_index(entries, j)
        IN /\ cf.constant_pool_count > 0 => i <= cf.constant_pool_count - 1
           /\ e.tag \in {"Long", "Double"} =>
                  /\ lookup(i + 1) = Absent
                  /\ k < Len(cf.stored) => cf.stored[k + 1] = i + 2

\* C16: an error raised inside a sub-decoder comes out of the decode entry
\* point; in particular a field whose descriptor text does not parse makes
\* the decoding fail: no accepted class file holds a field whose descriptor
\* text is not a field type ('V' counted as one here, see C13)
DescriptorErrorSurfaces ==
    cf.outcome = "ok" =>
        \A k \in 1..Len(cf.items.fields) :
            IsFieldType(cf.items.fields[k].read[5], TRUE)

\* C17: a field or method whose name index or descriptor index is absent
\* from the pool, or refers to an entry that is not a Utf8 entry, fails the
\* decoding with InvalidClassFile: every member that was decoded has a Utf8
\* entry at both indices
NameAndDescriptorAreUtf8 ==
    LET lookup(j) == IF cf.draft = "bytecode" THEN get(pool, j)
                     ELSE get_by_index(entries, j)
        members == cf.items.fields \o cf.items.methods
    IN \A k \in 1..Len(members) :
           /\ lookup(members[k].read[2]).tag = "Utf8"
           /\ lookup(members[k].read[4]).tag = "Utf8"

\* C18: in an accepted class file every pool index the decoded value holds
\* has an entry in the decoded pool: this_class, super_class, the index of
\* each interface, and the indices held by the attributes of the class (the
\* name index, and the value index of ConstantValue and SourceFile)
DecodedIndicesResolve ==
    LET present(j) == (IF cf.draft = "bytecode" THEN get(pool, j)
                       ELSE get_by_index(entries, j)) # Absent
        a == cf.items.attributes
    IN cf.outcome = "ok" =>
           /\ present(cf.this_class) /\ present(cf.super_class)
           /\ \A k \in 1..Len(cf.items.interfaces) :
                  present(cf.items.interfaces[k])
           /\ \A k \in 1..Len(a) :
                  /\ present(a[k].read[1])
                  /\ a[k].name \in {AttributeName.ConstantValue,
                                    AttributeName.SourceFile} =>
                         present(a[k].read[3])

\* C19: a Container as Container::new() returns it, with no registration
\* made, maps every standard attribute name to a decoder: under it no
\* attribute with a standard name is rejected with UnsupportedAttributeName
\* (the rejected attribute is the one at the cursor, whose name index
\* read_attribute has peeked)
NewContainerHasStandardAttributes ==
    /\ cf.draft = "bytecode" /\ cf.container = {}
    /\ cf.outcome = "err" /\ cf.err = "UnsupportedAttributeName"
    => text_of(pool, BigEndian(Slice(data, position, 2))).text
           \notin StandardAttributes

\* C27: with Code and LineNumberTable registered in the Container, the
\* method of the class whose Code attribute declares one nested attribute,
\* a LineNumberTable, is read without a failure, and in the code-info value
\* made of it the attribute list holds exactly one entry, the line-number
\* table with its row.
NestedLineNumberTable ==
    /\ data = ClassBytes(LineNumberFile)
    /\ cf.draft = "bytecode"
    /\ {AttributeName.Code, AttributeName.LineNumberTable} \subseteq cf.container
    => /\ cf.outcome \in {"err", "panic"} => Len(cf.items.methods) = 1
       /\ \A i \in 1..Len(cf.items.methods) :
              LET attributes == cf.items.methods[i].read[8]
              IN /\ Len(attributes) = 1
                 /\ attributes[1].name = AttributeName.Code
                 /\ Len(attributes[1].read) = 10
                 /\ attributes[1].read[9] = 1
                 /\ Len(attributes[1].read[10]) = 1
                 /\ attributes[1].read[10][1].name =
                        AttributeName.LineNumberTable
                 /\ attributes[1].read[10][1].read[4] = <<<<0, 1>>>>

\* the method with the Code attribute and its LineNumberTable has been read
NestedLineNumberTableRead ==
    /\ data = ClassBytes(LineNumberFile)
    /\ {AttributeName.Code, AttributeName.LineNumberTable} \subseteq cf.container
    /\ Len(cf.items.methods) = 1
    /\ cf.draft = "bytecode"

\* C28: every attribute decoder that succeeds leaves the cursor exactly
\* 6 + attribute_length bytes past the position where the attribute
\* started: whenever a class-level attribute is read and pushed, the cursor
\* has moved by 6 plus the length its header declares.
AttributeLengthIsConsumed ==
    [][/\ cf.pc = "item"
       /\ Lists[cf.list] = "attributes"
       /\ Len(cf'.items.attributes) = Len(cf.items.attributes) + 1
       => LET attribute == cf'.items.attributes[Len(cf'.items.attributes)]
          IN position' = position + 6 + U32ToUsize(attribute.read[2])]_vars

\* C29: after the constant-pool phase of a class file whose pool has no
\* Long or Double entry, a lookup at every index i from 1 to
\* constant_pool_count - 1, the last one included, returns the i-th entry
\* of the file.
PoolLookupInFileOrder ==
    LET lookup(i) == IF cf.draft = "bytecode" THEN get(pool, i)
                     ELSE get_by_index(entries, i)
        ith(i) == IF cf.draft = "bytecode" THEN pool[cf.stored[i]]
                  ELSE entries[i]
    IN /\ cf.pc \notin {"idle", "magic", "version", "constant_pool_count",
                        "constant_pool"}
       /\ Len(cf.stored) = cf.constant_pool_count - 1
       /\ \A i \in 1..Len(cf.stored) : ith(i).tag \notin {"Long", "Double"}
       => \A i \in 1..(cf.constant_pool_count - 1) : lookup(i) = ith(i)

-----------------------------------------------------------------------------
(* Properties of the StackMapTable decoder *)

\* C8: every frame of a StackMapTable is decoded from its own leading byte:
\* the frame type that gives the i-th decoded frame its variant (and its
\* number of locals added or dropped) is the byte the i-th frame starts
\* with on input
FrameDecodedFromOwnTypeByte ==
    \A i \in 1..Len(smt.entries) :
        LET e == smt.entries[i]
        IN /\ e.at < size
           /\ e.frame.read[1] = data[e.at + 1]

-----------------------------------------------------------------------------
(* Properties of the instruction decoder *)

\* the opcodes that take a u8 index: bipush, ldc, iload, lload, fload,
\* dload, aload, istore, lstore, fstore, dstore, astore, ret
U8IndexGroup == {16, 18, 21, 22, 23, 24, 25, 54, 55, 56, 57, 58, 169}

\* the opcodes that take a u16 index: ldc_w, ldc2_w, the branches ifeq ..
\* jsr, getstatic .. invokestatic, new, anewarray, checkcast, instanceof,
\* ifnull, ifnonnull
U16IndexGroup ==
    {19, 20} \cup 153..168 \cup 178..184 \cup {187, 189, 192, 193, 198, 199}

\* the opcodes the wide prefix modifies: iinc, and those of the u8 index
\* group that index a local variable
WideGroup == (U8IndexGroup \ {16, 18}) \cup {132}

\* instruction i is a modifiable one decoded right after a wide prefix
AfterWide(i) ==
    /\ i > 1
    /\ dec.instructions[i - 1].opcode = 196
    /\ dec.instructions[i].opcode \in WideGroup

\* C9: the wide prefix is a one-shot flag: the instruction decoded right
\* after a wide is decoded with widened operands (a u16 index; u16, i16 for
\* iinc), and the instruction after that one with its normal operand widths
\* (a u8 index; u8, i8 for iinc)
WideIsOneShot ==
    \A i \in 1..Len(dec.instructions) :
        LET x == dec.instructions[i]
            iinc == x.opcode = 132
        IN /\ AfterWide(i) => x.operands = IF iinc THEN 4 ELSE 2
           /\ i > 1 /\ AfterWide(i - 1) /\ x.opcode \in WideGroup =>
                  x.operands = IF iinc THEN 2 ELSE 1

\* C10: an instruction of the u8 index group takes exactly one operand
\* byte, one of the u16 index group exactly two (instructions under a wide
\* prefix aside)
OperandBytesByGroup ==
    \A i \in 1..Len(dec.instructions) :
        LET x == dec.instructions[i]
        IN ~(i > 1 /\ dec.instructions[i - 1].opcode = 196) =>
               /\ x.opcode \in U8IndexGroup => x.operands = 1
               /\ x.opcode \in U16IndexGroup => x.operands = 2

\* C11: invokedynamic takes four operand bytes, the u16 index and the two
\* padding bytes, and the next opcode is read from the byte after them
InvokedynamicTakesFour ==
    \A i \in 1..Len(dec.instructions) :
        LET x == dec.instructions[i]
        IN x.opcode = 186 =>
               /\ x.operands = 4
               /\ i < Len(dec.instructions) =>
                      dec.instructions[i + 1].at = x.at + 5

\* the first offset after from that is a multiple of 4, from the start of
\* the code array
Aligned(from) == from + ((4 - (from % 4)) % 4)

\* the i32 at offset k of the code array, or -1 where the array has no four
\* bytes there or the value is not a count a code array can hold
CountAt(k) ==
    IF k + 4 > size \/ data[k + 1] # 0 \/ data[k + 2] # 0 THEN -1
    ELSE BigEndian(Slice(data, k, 4))

\* the offset of the first byte after the tableswitch (170) or lookupswitch
\* (171) whose opcode is at offset at, as the file format lays it out:
\* padding, default, then low, high and high - low + 1 offsets, or npairs
\* and npairs pairs; -1 where the code array does not hold all of it
SwitchEnd(op, at) ==
    LET base == Aligned(at + 1)
        low == CountAt(base + 4)
        high == CountAt(base + 8)
        npairs == CountAt(base + 4)
        end == IF op = 170
               THEN IF low < 0 \/ high < low THEN -1
                    ELSE base + 12 + 4 * (high - low + 1)
               ELSE IF npairs < 0 THEN -1
                    ELSE base + 8 + 8 * npairs
    IN IF end > size THEN -1 ELSE end

\* C12: a tableswitch or lookupswitch skips the padding to the next multiple
\* of 4 from the start of the code array and takes the default and the whole
\* table or pairs: the cursor is left on the first byte after the instruction
SwitchConsumedWhole ==
    \A i \in 1..Len(dec.instructions) :
        LET x == dec.instructions[i]
        IN x.opcode \in {170, 171} =>
               x.at + 1 + x.operands = SwitchEnd(x.opcode, x.at)

\* C23: name() of every decoded instruction is the mnemonic of its opcode:
\* "aaload" for 0x32, "aconst_null" for 0x01, "return" for 0xb1, and no
\* other opcode has the mnemonic the instruction reports.
NameBelongsToOpcode ==
    \A i \in 1..Len(dec.instructions) :
        LET x == dec.instructions[i]
        IN /\ x.opcode = 50 => name(x) = "aaload"
           /\ x.opcode = 1 => name(x) = "aconst_null"
           /\ x.opcode = 177 => name(x) = "return"
           /\ \A op \in 0..201 : MNEMONIC[op + 1] = name(x) => op = x.opcode

\* C26: the loop over the code bytes 2A B7 00 01 B1 ends without a failure
\* and yields exactly three instructions, in this order: aload_0 with no
\* operand, invokespecial with the operand 1, return with no operand.
ExampleStreamDecodes ==
    data = <<42, 183, 0, 1, 177>> /\ dec.pc # "idle" =>
        /\ dec.outcome \in {"running", "ok"}
        /\ dec.err = ""
        /\ dec.outcome = "ok" =>
              /\ [i \in 1..Len(dec.instructions) |->
                     to_bytecode_string(dec.instructions[i])]
                 = <<"aload_0", "invokespecial #1", "return">>
              /\ [i \in 1..Len(dec.instructions) |-> dec.instructions[i].args]
                 = <<<<>>, <<1>>, <<>>>>
              /\ [i \in 1..Len(dec.instructions) |->
                     dec.instructions[i].opcode]
                 = <<42, 183, 177>>

\* the loop over 2A B7 00 01 B1 has come to its end
ExampleStreamDecoded ==
    /\ data = <<42, 183, 0, 1, 177>>
    /\ dec.outcome = "ok"
    /\ Len(dec.instructions) = 3

\* C30: for every instruction the decoder returns, size() is 1 plus the
\* number of operand bytes the decoder took for it, and
\* index_of_next_instruction(current, is_wide), current the offset of the
\* instruction, is the offset at which the following instruction starts
\* (where no byte in between was given up as an unsupported opcode).
SizeIsBytesConsumed ==
    \A i \in 1..Len(dec.instructions) :
        LET x == dec.instructions[i]
        IN /\ size_(x) = 1 + x.operands
           /\ i < Len(dec.instructions) /\ dec.err = "" =>
                  \A is_wide \in BOOLEAN :
                      index_of_next_instruction(x, x.at, is_wide)
                      = dec.instructions[i + 1].at

-----------------------------------------------------------------------------
(* Properties of the descriptor parsers *)

\* C13: 'V' is accepted only as the return type of a method descriptor: a
\* field descriptor that is 'V', alone or as an array component, and a
\* method descriptor with a 'V' in its parameter list, fail with
\* InvalidDescriptor
VoidOnlyAsReturn ==
    LET text == desc.text
        params == param_chars(text)
        \* the text is 'V' or an array type whose component is 'V'
        VoidField ==
            /\ text # <<>>
            /\ text[Len(text)] = Char.V
            /\ \A i \in 1..(Len(text) - 1) : text[i] = Char.bracket
        \* the text opens a parameter list with a 'V' and no class name
        VoidParameter ==
            /\ text # <<>> /\ Head(text) = Char.open
            /\ \E i \in 1..Len(params) : params[i] = Char.V
            /\ \A i \in 1..Len(params) : params[i] # Char.L
        fails ==
            desc.result.kind = "err" /\ desc.result.err = "InvalidDescriptor"
    IN /\ desc.fn = "parse_from_field" /\ VoidField => fails
       /\ desc.fn \in {"parse_from_method", "parse_method_descriptor"}
          /\ VoidParameter => fails

\* C14: the field-descriptor parser succeeds only on a text that is exactly
\* one field type: it fails when characters remain after the type and when
\* a class name is not closed by ';' ('V' is counted as a type here; whether
\* it is one is the matter of C13)
FieldParserTakesWholeInput ==
    desc.fn = "parse_from_field" /\ desc.result.kind = "ok" =>
        IsFieldType(desc.text, TRUE)

\* C15: the method-descriptor parsers accept only '(' field types ')' and
\* exactly one return type; a text without '(', without ')', with no return
\* type or with more than one is rejected with an error
MethodParserRejectsMalformed ==
    desc.fn \in {"parse_from_method", "parse_method_descriptor"}
    /\ desc.result.kind = "ok" =>
        IsMethodDescriptor(desc.text)

\* C22: for every valid field descriptor s, the string of the parsed
\* descriptor is s with the base type rendered in its own form: the leading
\* '[' of s and an object's 'L' class name ';' come back exactly as in s.
FieldDescriptorRoundTrip ==
    desc.fn = "to_string" /\ IsFieldType(desc.text, FALSE) =>
        LET s == desc.text
            k == CHOOSE n \in 0..Len(s) :
                     /\ \A i \in 1..n : s[i] = Char.bracket
                     /\ n = Len(s) \/ s[n + 1] # Char.bracket
            component == SubSeq(s, k + 1, Len(s))
        IN desc.result.value =
               SubSeq(s, 1, k)
               \o (IF Head(component) = Char.L THEN component
                   ELSE BaseType_fmt[BaseType[Head(component)]])

ArrayLayersNest ==
    desc.fn = "parse_from_field" =>
        LET s == desc.text
            k == CHOOSE n \in 0..Len(s) :
                     /\ \A i \in 1..n : s[i] = Char.bracket
                     /\ n = Len(s) \/ s[n + 1] # Char.bracket
            component == SubSeq(s, k + 1, Len(s))
            RECURSIVE layers(_, _)
            layers(n, ty) == IF n = 0 THEN ty
                             ELSE <<"Array", layers(n - 1, ty)>>
        IN /\ k > 0 /\ IsFieldType(component, FALSE) =>
                 /\ desc.result.kind = "ok"
                 /\ desc.result.value[1].ty = layers(k, TypeOf(component))
           /\ s = DescriptorExamples.field =>
                 desc.result.value[1].ty =
                     <<"Array",
                       <<"Array",
                         <<"Object", <<106, 97, 118, 97, 47, 108, 97, 110,
                                       103, 47, 83, 116, 114, 105, 110,
                                       103>>>>>>>>

\* parse_from_field has returned for "[[Ljava/lang/String;"
ArrayExampleParsed ==
    /\ desc.fn = "parse_from_field"
    /\ desc.text = DescriptorExamples.field
    /\ desc.result.kind = "ok"
    /\ desc.result.value[1].ty[1] = "Array"
====
